---- MODULE Spec2Model ----
(***************************************************************************)
(* Model of the job-recommendation backend (Ai-recommender-agent-main):    *)
(* the skill normalizer, the recommendation scorer and the job store that  *)
(* the admin scrape / update / delete endpoints write to.                  *)
(*                                                                         *)
(* Strings are TLA+ strings; a character is a string of length one.        *)
(* Scores are exact rationals <<numerator, denominator>> in lowest terms.  *)
(***************************************************************************)
EXTENDS Integers, Sequences, FiniteSets, TLC

VARIABLES
    \* ---- skill normalizer runs (SpecNorm) ----
    skill,            \* the argument of normalize_skill
    normalized,       \* normalize_skill(skill), once computed
    renormalized,     \* normalize_skill(normalized), once computed
    npc,              \* "start" -> "once" -> "twice"
    \* ---- recommendation requests (SpecRec) ----
    user,             \* the requesting User row
    job_postings,     \* the job_postings table, in query order
    limit,            \* the request's limit parameter
    user_embedding,   \* the embedding handed to score_jobs_node
    job_candidates,   \* the candidate dicts handed to score_jobs_node
    scored_jobs,      \* score_jobs_node's output
    filtered_jobs,    \* get_recommendations' secondary filter output
    top_jobs,         \* the returned list
    rpc,              \* "idle" -> "done"
    request_log,      \* per finished request of the user: what it did
    \* ---- admin sessions on the job store (Spec) ----
    sess,             \* per database session: the request it is serving
    next_id,          \* next fresh primary key
    \* ---- direct calls of cosine_similarity (SpecCos) ----
    embedding1,       \* first argument
    embedding2,       \* second argument
    similarity,       \* the call's outcome: not made, returned value, raised
    \* ---- normalize_job runs (SpecJob) ----
    raw_job,          \* the scraped job dict
    normalized_job,   \* normalize_job's result, as far as modelled
    embedding_log,    \* what the embedding service did for normalize_job
    \* ---- requests to the admin router (SpecAdmin) ----
    users,            \* the users table: user id -> row
    saved_jobs,       \* the saved_jobs table: rows [user_id, job_id]
    scrape_runs,      \* how often scraper_agent.invoke has been started
    admin_response,   \* the last response of the admin router
    \* ---- one skill-gap analysis (SpecGap) ----
    gap_state,        \* the SkillGapState the agent's nodes pass on
    \* ---- one API request after another, with its external calls (SpecApi) ----
    api_request,      \* the request being answered: endpoint and user
    external_calls,   \* the calls to external services the request made
    api_response,     \* the response the client receives
    \* ---- combined scores of two candidates (SpecScore) ----
    score_args,       \* the two candidates' similarity_score and skill_match_ratio
    score_results,    \* their combined_score once computed
    \* ---- BaseScraper rate limiting ----
    scraper_clock,    \* time.time() in seconds
    last_request_time, \* BaseScraper.last_request_time
    fetch_log,        \* the outbound requests of the instance in order
    \* ---- retrieve_context_node (SpecContext) ----
    query_embedding,  \* embedding of the user message or NoVector
    context_jobs,     \* the rows the job query returned
    relevant_jobs,    \* state[relevant_jobs]
    context_status,   \* how retrieve_context_node ended
    \* ---- chat router (SpecChat) ----
    conversations,    \* rows of the conversations table in creation order
    messages,         \* rows of the messages table ordered by created_at
    chat_request,     \* the chat request handled last
    chat_response,    \* what it answered and what it gave the advisor
    \* ---- save_job and unsave_job (SpecSaved) ----
    saved_table,      \* rows of saved_jobs in insertion order
    saved_next_id,    \* number of the next SavedJob row
    save_requests,    \* per connection the save_job request in flight and its position
    save_response,    \* the response sent last
    \* ---- job listings after admin updates (SpecListing) ----
    listing           \* the job ids of the listing answered last

vars == <<skill, normalized, renormalized, npc,
          user, job_postings, limit, user_embedding, job_candidates,
          scored_jobs, filtered_jobs, top_jobs, rpc, request_log,
          sess, next_id,
          embedding1, embedding2, similarity,
          raw_job, normalized_job, embedding_log,
          users, saved_jobs, scrape_runs, admin_response,
          gap_state, api_request, external_calls, api_response,
          score_args, score_results,
          scraper_clock, last_request_time, fetch_log,
          query_embedding, context_jobs, relevant_jobs, context_status,
          conversations, messages, chat_request, chat_response,
          saved_table, saved_next_id, save_requests, save_response,
          listing>>

normVars == <<skill, normalized, renormalized, npc>>
recVars  == <<user, limit, user_embedding, job_candidates,
              scored_jobs, filtered_jobs, top_jobs, rpc, request_log>>
storeVars == <<sess, next_id>>
cosVars == <<embedding1, embedding2, similarity>>
jobVars == <<raw_job, normalized_job, embedding_log>>
adminVars == <<users, saved_jobs, scrape_runs, admin_response>>
gapVars == <<gap_state>>
apiVars == <<api_request, external_calls, api_response>>
scoreVars == <<score_args, score_results>>
limiterVars == <<scraper_clock, last_request_time, fetch_log>>
contextVars == <<query_embedding, context_jobs, relevant_jobs, context_status>>
chatVars == <<conversations, messages, chat_request, chat_response>>
savedVars == <<saved_table, saved_next_id, save_requests, save_response>>
listingVars == <<listing>>

\* what the steps of one specification leave alone
outsideStore ==
    <<normVars, recVars, cosVars, jobVars, adminVars, gapVars,
      apiVars, scoreVars, limiterVars, contextVars, chatVars,
      savedVars, listingVars>>
outsideRec ==
    <<normVars, storeVars, cosVars, jobVars, adminVars, gapVars,
      apiVars, scoreVars, limiterVars, contextVars, chatVars,
      savedVars, listingVars>>
outsideNorm ==
    <<recVars, storeVars, job_postings, cosVars, jobVars, adminVars,
      gapVars, apiVars, scoreVars, limiterVars, contextVars, chatVars,
      savedVars, listingVars>>
outsideCos ==
    <<normVars, recVars, storeVars, job_postings, jobVars, adminVars,
      gapVars, apiVars, scoreVars, limiterVars, contextVars, chatVars,
      savedVars, listingVars>>
outsideJob ==
    <<normVars, recVars, storeVars, job_postings, cosVars, adminVars,
      gapVars, apiVars, scoreVars, limiterVars, contextVars, chatVars,
      savedVars, listingVars>>
outsideAdmin ==
    <<normVars, recVars, sess, cosVars, jobVars, gapVars, apiVars,
      scoreVars, limiterVars, contextVars, chatVars, savedVars,
      listingVars>>
outsideGap ==
    <<normVars, recVars, storeVars, job_postings, cosVars, jobVars,
      adminVars, apiVars, scoreVars, limiterVars, contextVars,
      chatVars, savedVars, listingVars>>
outsideApi ==
    <<normVars, recVars, storeVars, job_postings, cosVars, jobVars,
      adminVars, gapVars, scoreVars, limiterVars, contextVars,
      chatVars, savedVars, listingVars>>
outsideScore ==
    <<normVars, recVars, storeVars, job_postings, cosVars, jobVars,
      adminVars, gapVars, apiVars, limiterVars, contextVars, chatVars,
      savedVars, listingVars>>
outsideLimiter ==
    <<normVars, recVars, storeVars, job_postings, cosVars, jobVars,
      adminVars, gapVars, apiVars, scoreVars, contextVars, chatVars,
      savedVars, listingVars>>
outsideContext ==
    <<normVars, recVars, storeVars, job_postings, cosVars, jobVars,
      adminVars, gapVars, apiVars, scoreVars, limiterVars, chatVars,
      savedVars, listingVars>>
outsideChat ==
    <<normVars, recVars, storeVars, job_postings, cosVars, jobVars,
      adminVars, gapVars, apiVars, scoreVars, limiterVars,
      contextVars, savedVars, listingVars>>
outsideSaved ==
    <<normVars, recVars, storeVars, job_postings, cosVars, jobVars,
      adminVars, gapVars, apiVars, scoreVars, limiterVars,
      contextVars, chatVars, listingVars>>
outsideListing ==
    <<normVars, recVars, storeVars, job_postings, cosVars, jobVars,
      adminVars, gapVars, apiVars, scoreVars, limiterVars,
      contextVars, chatVars, savedVars>>

\* Python's None for an optional string, and for an optional vector column.
\* Neither is a value the program can hold otherwise: skills never contain
\* '<', and a pgvector column never stores a vector of length 0.
None == "<None>"
NoVector == <<>>

\* None in a JSON list column (User.skills, JobPosting.required_skills): told
\* apart from every stored list of skill strings
NoList == <<None>>

\* xs or []
or_empty(xs) == IF xs = NoList THEN <<>> ELSE xs

(***************************************************************************)
(* str helpers                                                             *)
(***************************************************************************)
CharAt(s, i) == SubSeq(s, i, i)

UpperCase == "ABCDEFGHIJKLMNOPQRSTUVWXYZ"
LowerCase == "abcdefghijklmnopqrstuvwxyz"

\* the lowercase letter of every uppercase letter
LowerOf ==
    [c \in {CharAt(UpperCase, i) : i \in 1..Len(UpperCase)} |->
        CharAt(LowerCase, CHOOSE i \in 1..Len(UpperCase) : CharAt(UpperCase, i) = c)]

\* str.lower() on one character
LowerChar(c) == IF c \in DOMAIN LowerOf THEN LowerOf[c] ELSE c

\* s[i:].lower(), i counted from 1
RECURSIVE lower_from(_, _)
lower_from(s, i) ==
    IF i > Len(s) THEN ""
    ELSE LowerChar(CharAt(s, i)) \o lower_from(s, i + 1)

lower(s) == lower_from(s, 1)

\* the characters str.strip() removes
Whitespace == {" ", "\t", "\n", "\r"}

RECURSIVE lstrip(_)
lstrip(s) ==
    IF Len(s) > 0 /\ CharAt(s, 1) \in Whitespace
    THEN lstrip(SubSeq(s, 2, Len(s)))
    ELSE s

RECURSIVE rstrip(_)
rstrip(s) ==
    IF Len(s) > 0 /\ CharAt(s, Len(s)) \in Whitespace
    THEN rstrip(SubSeq(s, 1, Len(s) - 1))
    ELSE s

strip(s) == rstrip(lstrip(s))

\* str.replace(old, new) for a one-character old
RECURSIVE replace_from(_, _, _, _)
replace_from(s, i, old, new) ==
    IF i > Len(s) THEN ""
    ELSE (IF CharAt(s, i) = old THEN new ELSE CharAt(s, i))
         \o replace_from(s, i + 1, old, new)

replace(s, old, new) == replace_from(s, 1, old, new)

(***************************************************************************)
(* normalize_skill                                                         *)
(***************************************************************************)
\* The alias table, key :> value, in source order.
variations ==
    ("node.js" :> "nodejs") @@
    ("node js" :> "nodejs") @@
    ("nodejs" :> "nodejs") @@
    ("machine learning" :> "ml") @@
    ("artificial intelligence" :> "ai") @@
    ("ai" :> "ai") @@
    ("data science" :> "datascience") @@
    ("datascience" :> "datascience") @@
    ("javascript" :> "js") @@
    ("js" :> "js") @@
    ("typescript" :> "ts") @@
    ("ts" :> "ts") @@
    ("c++" :> "cpp") @@
    ("cplusplus" :> "cpp") @@
    ("cpp" :> "cpp") @@
    ("expressjs" :> "express") @@
    ("express.js" :> "express") @@
    ("express" :> "express") @@
    ("fastapi" :> "fastapi") @@
    ("fast api" :> "fastapi") @@
    ("scikit-learn" :> "scikitlearn") @@
    ("scikitlearn" :> "scikitlearn") @@
    ("scikit learn" :> "scikitlearn") @@
    ("llm models" :> "llm") @@
    ("llm" :> "llm") @@
    ("deep learning" :> "deeplearning") @@
    ("deeplearning" :> "deeplearning") @@
    ("prompt engineering" :> "promptengineering") @@
    ("promptengineering" :> "promptengineering")

\* basic_cleanup with '.' turned into a space like '-' and '_'
basic_cleanup_dots_spaced(s) ==
    replace(replace(replace(strip(lower(s)), "-", " "), "_", " "), ".", " ")

\* normalized = skill.lower().strip()
\* normalized = normalized.replace("-", " ").replace("_", " ").replace(".", "")
basic_cleanup(s) ==
    replace(replace(replace(strip(lower(s)), "-", " "), "_", " "), ".", "")

\* dict.get(key, default)
dict_get(d, key, default) == IF key \in DOMAIN d THEN d[key] ELSE default

normalize_skill(s) ==
    IF s = None \/ s = "" THEN ""
    ELSE LET cleaned == basic_cleanup(s)
         IN  dict_get(variations, cleaned, cleaned)

(***************************************************************************)
(* SpecNorm: normalize_skill applied to a skill, then to its own result    *)
(***************************************************************************)
MaxSkillLen == 3

NormAlphabet == {"a", "I", "j", "S", "c", "+", " ", "-", "_", "."}

RECURSIVE StringsUpTo(_)
StringsUpTo(n) ==
    IF n = 0 THEN {""}
    ELSE StringsUpTo(n - 1) \cup
         {s \o c : s \in StringsUpTo(n - 1), c \in NormAlphabet}

\* spellings of one skill as resumes and job boards write it
Spellings(k) ==
    {k, " " \o k \o " ", "-" \o k, k \o "-", "_" \o k, k \o "_",
     "." \o k, k \o ".", k \o " .", "\t" \o k \o "\n",
     replace(k, " ", "-"), replace(k, " ", "_"), replace(k, " ", ".")}

NamedSkills ==
    {"Python", "python", "AWS", "docker", "Java", "Node.js", "NodeJS",
     "Machine Learning", "C++", "JavaScript", "Scikit-Learn", "ASP.NET",
     "CI/CD", "React Native", "Fast_API", "LLM Models"}

SkillInputs ==
    {None} \cup StringsUpTo(MaxSkillLen) \cup NamedSkills
    \cup UNION {Spellings(k) : k \in DOMAIN variations}

InitNorm ==
    /\ skill \in SkillInputs
    /\ normalized = None
    /\ renormalized = None
    /\ npc = "start"

\* normalized = normalize_skill(skill)
NormalizeOnce ==
    /\ npc = "start"
    /\ normalized' = normalize_skill(skill)
    /\ npc' = "once"
    /\ UNCHANGED <<skill, renormalized>>

\* normalize_skill(normalized): the key normalized again
NormalizeTwice ==
    /\ npc = "once"
    /\ renormalized' = normalize_skill(normalized)
    /\ npc' = "twice"
    /\ UNCHANGED <<skill, normalized>>

(***************************************************************************)
(* Exact arithmetic for the float scores: <<n, d>> with d > 0, lowest terms *)
(***************************************************************************)
Abs(n) == IF n < 0 THEN -n ELSE n

RECURSIVE GCD(_, _)
GCD(a, b) == IF b = 0 THEN a ELSE GCD(b, a % b)

Rat(n, d) ==
    IF n = 0 THEN <<0, 1>>
    ELSE LET g == GCD(Abs(n), d) IN <<n \div g, d \div g>>

RatAdd(a, b) == Rat(a[1] * b[2] + b[1] * a[2], a[2] * b[2])
RatMul(a, b) == Rat(a[1] * b[1], a[2] * b[2])
RatLt(a, b) == a[1] * b[2] < b[1] * a[2]
RatLe(a, b) == a[1] * b[2] <= b[1] * a[2]
RatMax(a, b) == IF RatLt(a, b) THEN b ELSE a
RatMin(a, b) == IF RatLt(b, a) THEN b ELSE a
Zero == <<0, 1>>
One == <<1, 1>>

(***************************************************************************)
(* EmbeddingGenerator.cosine_similarity                                    *)
(***************************************************************************)
RECURSIVE dot(_, _)
dot(v, w) ==
    IF Len(v) = 0 THEN 0
    ELSE v[1] * w[1] + dot(Tail(v), Tail(w))

\* np.linalg.norm on the vectors of the model, whose squared lengths are
\* perfect squares: the root is exact.
norm(v) == CHOOSE r \in 0..dot(v, v) : r * r = dot(v, v)

\* np.dot on 1-D arrays of different lengths raises ValueError
cosine_raises(vec1, vec2) == Len(vec1) # Len(vec2)

cosine_similarity(vec1, vec2) ==
    IF norm(vec1) = 0 \/ norm(vec2) = 0 THEN Zero
    ELSE Rat(dot(vec1, vec2), norm(vec1) * norm(vec2))

(***************************************************************************)
(* SpecCos: cosine_similarity called on two embeddings, as                 *)
(* retrieve_context_node calls it on the query and a job embedding         *)
(***************************************************************************)
\* embeddings with integer norms, the all-zero embedding, and one of another
\* dimension
Vectors ==
    {<<0, 0, 0>>, <<3, 4, 0>>, <<4, 3, 0>>, <<-3, 4, 0>>, <<-3, -4, 0>>,
     <<2, -1, 2>>, <<0, 0, 5>>, <<-2, 1, -2>>, <<3, 4>>, <<0, 0>>}

NoCall == [status |-> "none", value |-> Zero]

InitCos ==
    /\ embedding1 \in Vectors
    /\ embedding2 \in Vectors
    /\ similarity = NoCall

\* similarity = embedding_generator.cosine_similarity(embedding1, embedding2)
CosineSimilarity ==
    /\ similarity.status = "none"
    /\ ~cosine_raises(embedding1, embedding2)
    /\ similarity' = [status |-> "returned",
                      value |-> cosine_similarity(embedding1, embedding2)]
    /\ UNCHANGED <<embedding1, embedding2>>

\* the same call on embeddings of different dimensions: np.dot raises
CosineSimilarityRaises ==
    /\ similarity.status = "none"
    /\ cosine_raises(embedding1, embedding2)
    /\ similarity' = [status |-> "raised", value |-> Zero]
    /\ UNCHANGED <<embedding1, embedding2>>

(***************************************************************************)
(* list helpers                                                            *)
(***************************************************************************)
\* {f(x) for x in xs}
Elems(xs) == {xs[i] : i \in DOMAIN xs}

\* xs[:k], Python slicing: a negative k counts from the end
Slice(xs, k) ==
    IF k >= 0
    THEN SubSeq(xs, 1, IF k < Len(xs) THEN k ELSE Len(xs))
    ELSE SubSeq(xs, 1, IF Len(xs) + k > 0 THEN Len(xs) + k ELSE 0)

\* reversed(xs)
Reverse(xs) == [i \in 1..Len(xs) |-> xs[Len(xs) + 1 - i]]

\* insert x behind every element whose key is >= x's key: with InsertDesc
\* applied from the left this is list.sort(key=..., reverse=True), which is
\* stable (equal keys keep their original order)
RECURSIVE InsertDesc(_, _, _)
InsertDesc(sorted, x, key) ==
    IF Len(sorted) = 0 THEN <<x>>
    ELSE IF RatLt(Head(sorted)[key], x[key])
         THEN <<x>> \o sorted
         ELSE <<Head(sorted)>> \o InsertDesc(Tail(sorted), x, key)

RECURSIVE SortDescFrom(_, _, _)
SortDescFrom(sorted, rest, key) ==
    IF Len(rest) = 0 THEN sorted
    ELSE SortDescFrom(InsertDesc(sorted, Head(rest), key), Tail(rest), key)

\* the sort without reverse=True: ascending keys
sort_ascending(xs, key) == Reverse(SortDescFrom(<<>>, xs, key))

sort_reverse(xs, key) == SortDescFrom(<<>>, xs, key)

(***************************************************************************)
(* score_jobs_node                                                         *)
(***************************************************************************)
\* {normalize_skill(skill) for skill in skills if skill}
normalized_set(skills) ==
    {normalize_skill(skills[i]) :
        i \in {j \in DOMAIN skills : skills[j] # None /\ skills[j] # ""}}

\* similarity_score without max(0.0, min(1.0, ...))
similarity_of_unclamped(job, uemb) ==
    IF job.description_embedding # NoVector /\ uemb # NoVector
    THEN IF cosine_raises(uemb, job.description_embedding)
         THEN Zero
         ELSE cosine_similarity(uemb, job.description_embedding)
    ELSE Zero

\* similarity_score of one candidate
similarity_of(job, uemb) ==
    IF job.description_embedding # NoVector /\ uemb # NoVector
    THEN IF cosine_raises(uemb, job.description_embedding)
         THEN Zero                              \* except Exception
         ELSE RatMax(Zero, RatMin(One,
                  cosine_similarity(uemb, job.description_embedding)))
    ELSE Zero

\* the count with union in place of intersection
skill_match_count_union(user_skills_normalized, job_skills_normalized) ==
    Cardinality(user_skills_normalized \cup job_skills_normalized)

\* len(user_skills_normalized.intersection(job_skills_normalized))
skill_match_count_of(user_skills_normalized, job_skills_normalized) ==
    Cardinality(user_skills_normalized \cap job_skills_normalized)

\* skill_match_count / len(job_skills_normalized) if job_skills_normalized else 0.0
skill_match_ratio_of(skill_match_count, job_skills_normalized) ==
    IF job_skills_normalized # {}
    THEN Rat(skill_match_count, Cardinality(job_skills_normalized))
    ELSE Zero

\* the combined score without the skill-only branch
combined_score_unboosted(similarity_score, skill_match_ratio) ==
    RatAdd(RatMul(similarity_score, <<5, 10>>),
           RatMul(skill_match_ratio, <<5, 10>>))

\* the combined score as the plain sum of the two scores
combined_score_summed(similarity_score, skill_match_ratio) ==
    RatAdd(similarity_score, skill_match_ratio)

combined_score_of(similarity_score, skill_match_ratio) ==
    IF similarity_score = Zero /\ RatLt(Zero, skill_match_ratio)
    THEN RatMul(skill_match_ratio, <<8, 10>>)
    ELSE RatAdd(RatMul(similarity_score, <<5, 10>>),
                RatMul(skill_match_ratio, <<5, 10>>))

\* the candidate dict extended with its four scores
score_job(job, uemb, user_skills_normalized) ==
    LET similarity_score == similarity_of(job, uemb)
        job_skills_normalized == normalized_set(job.required_skills)
        skill_match_count ==
            skill_match_count_of(user_skills_normalized, job_skills_normalized)
        skill_match_ratio ==
            skill_match_ratio_of(skill_match_count, job_skills_normalized)
    IN  [id |-> job.id,
         required_skills |-> job.required_skills,
         description_embedding |-> job.description_embedding,
         similarity_score |-> similarity_score,
         skill_match_count |-> skill_match_count,
         skill_match_ratio |-> skill_match_ratio,
         combined_score |-> combined_score_of(similarity_score, skill_match_ratio)]

\* the inclusion test without its combined-score clause
passes_gate_no_combined(sj) ==
    \/ sj.skill_match_count > 0
    \/ RatLt(<<3, 10>>, sj.similarity_score)

\* the inclusion test that guards scored_jobs.append
passes_gate(sj) ==
    \/ sj.skill_match_count > 0
    \/ RatLt(<<3, 10>>, sj.similarity_score)
    \/ RatLt(<<1, 10>>, sj.combined_score)

RECURSIVE score_loop(_, _, _)
score_loop(candidates, uemb, user_skills_normalized) ==
    IF Len(candidates) = 0 THEN <<>>
    ELSE LET sj == score_job(Head(candidates), uemb, user_skills_normalized)
         IN  (IF passes_gate(sj) THEN <<sj>> ELSE <<>>)
             \o score_loop(Tail(candidates), uemb, user_skills_normalized)

\* "for skill in <list>" over None raises TypeError
iter_raises(skills) == skills = NoList

\* whether score_jobs_node raises: its skill lists are iterated outside any try
score_raises(user_skills, candidates) ==
    \/ iter_raises(user_skills)
    \/ \E i \in DOMAIN candidates : iter_raises(candidates[i].required_skills)

\* state["scored_jobs"] after score_jobs_node
score_jobs_node(user_skills, uemb, candidates) ==
    sort_reverse(score_loop(candidates, uemb, normalized_set(user_skills)),
                 "combined_score")

(***************************************************************************)
(* get_recommendations                                                     *)
(***************************************************************************)
\* Python truthiness of an optional string
Truthy(s) == s # None /\ s # ""

\* sep.join(xs)
RECURSIVE join(_, _)
join(sep, xs) ==
    IF Len(xs) = 0 THEN ""
    ELSE IF Len(xs) = 1 THEN xs[1]
    ELSE xs[1] \o sep \o join(sep, Tail(xs))

\* user_text = " ".join(user_parts)
user_text_of(u) ==
    join(" ",
        (IF Truthy(u.resume_text) THEN <<u.resume_text>> ELSE <<>>)
     \o (IF u.skills # NoList /\ Len(u.skills) > 0
         THEN <<"Skills: " \o join(", ", u.skills)>> ELSE <<>>)
     \o (IF Truthy(u.experience_years)
         THEN <<"Experience: " \o u.experience_years \o " years">> ELSE <<>>)
     \o (IF Truthy(u.education_level)
         THEN <<"Education: " \o u.education_level>> ELSE <<>>))

\* whether get_recommendations calls embedding_generator.generate_embedding
calls_embedding(u) ==
    u.resume_embedding = NoVector /\ strip(user_text_of(u)) # ""

\* The embedding handed to scoring: the stored one, else the reply of
\* embedding_generator.generate_embedding (NoVector when it raises), else none.
embedding_for(u, reply) ==
    IF u.resume_embedding # NoVector THEN u.resume_embedding
    ELSE IF strip(user_text_of(u)) # "" THEN reply
    ELSE NoVector

\* the request's entry in request_log
log_entry(u, reply) ==
    IF ~calls_embedding(u) THEN "no_call"
    ELSE IF reply # NoVector THEN "embedded" ELSE "embedding_failed"

\* the generated embedding is used but never stored
user_after_not_persisting(u, reply) == u

\* user.resume_embedding = user_embedding whether or not one was stored
user_after_overwriting(u, reply) ==
    IF strip(user_text_of(u)) # "" /\ reply # NoVector
    THEN [u EXCEPT !.resume_embedding = reply]
    ELSE u

\* user.resume_embedding = user_embedding; db.commit()
user_after(u, reply) ==
    IF u.resume_embedding = NoVector /\ strip(user_text_of(u)) # ""
       /\ reply # NoVector
    THEN [u EXCEPT !.resume_embedding = reply]
    ELSE u

\* .limit(500)
QueryLimit == 500

\* db.query(JobPosting).filter(JobPosting.is_active == True).limit(500).all()
active_jobs(table) ==
    Slice(SelectSeq(table, LAMBDA j : j.is_active), QueryLimit)

\* the job_candidates.append({...}) loop
candidates_of(jobs) ==
    [i \in DOMAIN jobs |->
        [id |-> jobs[i].id,
         required_skills |-> or_empty(jobs[i].required_skills),
         description_embedding |-> jobs[i].description_embedding]]

\* the caller-side filter with its similarity clause alone
passes_filter_similarity_only(sj) == RatLt(<<15, 100>>, sj.similarity_score)

\* the caller-side filter on scored_jobs
passes_filter(sj) ==
    \/ sj.skill_match_count > 0
    \/ RatLt(<<15, 100>>, sj.similarity_score)
    \/ RatLt(<<1, 100>>, sj.combined_score)

\* if not filtered_jobs and scored_jobs
fallback_taken(scored) ==
    SelectSeq(scored, passes_filter) = <<>> /\ scored # <<>>

\* scored_jobs as get_recommendations leaves it (the fallback sorts it in place)
scored_after(scored) ==
    IF fallback_taken(scored) THEN sort_reverse(scored, "similarity_score")
    ELSE scored

\* filtered_jobs after the final sort by combined score
filtered_of(scored, lim) ==
    sort_reverse(
        IF fallback_taken(scored)
        THEN Slice(sort_reverse(scored, "similarity_score"), lim)
        ELSE SelectSeq(scored, passes_filter),
        "combined_score")

\* top_jobs = filtered_jobs[:limit]
top_jobs_of(scored, lim) == Slice(filtered_of(scored, lim), lim)

(***************************************************************************)
(* SpecRec: one recommendations request against a stored user and job table *)
(***************************************************************************)
MaxJobs == 3
MaxLimit == 2

\* the requests' limit values; the endpoint declares a plain int
Limits == (-1)..MaxLimit

UserRow(skills, text, years, education, embedding, onboarded) ==
    [skills |-> skills, resume_text |-> text, experience_years |-> years,
     education_level |-> education, resume_embedding |-> embedding,
     onboarding_completed |-> onboarded]

UserPool ==
    {UserRow(<<"Python", "AWS">>, None, None, None, NoVector, TRUE),
     UserRow(<<"js", "Machine Learning">>, "resume", "3", "BSc", <<3, 4, 0>>, TRUE),
     UserRow(<<>>, None, None, None, NoVector, TRUE),
     UserRow(<<>>, " ", None, "", <<3, 4, 0>>, TRUE),
     UserRow(<<"", "java", "AWS">>, "resume", None, None, NoVector, TRUE),
     UserRow(<<"Python">>, "resume", None, None, NoVector, FALSE)}

JobKind(skills, embedding, active) ==
    [required_skills |-> skills, description_embedding |-> embedding,
     is_active |-> active]

JobKinds ==
    {JobKind(<<"python", "docker">>, NoVector, TRUE),
     JobKind(<<"JavaScript", "js", "React">>, <<3, 4, 0>>, TRUE),
     JobKind(<<>>, <<-3, 4, 0>>, TRUE),
     JobKind(<<"AWS">>, <<2, -1, 2>>, TRUE),
     JobKind(<<"ml", "Go">>, <<-3, -4, 0>>, TRUE),
     JobKind(<<"Python">>, <<3, 4, 0>>, FALSE)}

\* replies of the embedding service: a vector, or NoVector for a raised error
EmbeddingReplies == {NoVector, <<3, 4, 0>>}

SourceUrl(i) == "https://jobs.example/" \o ToString(i)

JobRow(i, kind) ==
    [id |-> i, source_url |-> SourceUrl(i),
     required_skills |-> kind.required_skills,
     description_embedding |-> kind.description_embedding,
     is_active |-> kind.is_active]

JobTables ==
    UNION {{[i \in 1..n |-> JobRow(i, kinds[i])] : kinds \in [1..n -> JobKinds]}
           : n \in 0..MaxJobs}

InitRec ==
    /\ user \in UserPool
    /\ job_postings \in JobTables
    /\ limit \in Limits
    /\ user_embedding = NoVector
    /\ job_candidates = <<>>
    /\ scored_jobs = <<>>
    /\ filtered_jobs = <<>>
    /\ top_jobs = <<>>
    /\ rpc = "idle"
    /\ request_log = <<>>

\* get_user_recommendations for a user who has not completed onboarding
RecommendationsNotOnboarded ==
    /\ rpc = "idle"
    /\ ~user.onboarding_completed
    /\ rpc' = "skipped"
    /\ top_jobs' = <<>>
    /\ UNCHANGED <<user, job_postings, limit, user_embedding, job_candidates,
                   scored_jobs, filtered_jobs, request_log>>

\* get_user_recommendations -> get_recommendations(current_user, db, limit);
\* an exception out of get_recommendations is answered with no recommendations
GetRecommendations ==
    /\ rpc = "idle"
    /\ user.onboarding_completed
    /\ \E reply \in EmbeddingReplies :
       \E uemb \in {embedding_for(user, reply)} :
       \E candidates \in {candidates_of(active_jobs(job_postings))} :
            /\ user' = user_after(user, reply)
            /\ request_log' = Append(request_log, log_entry(user, reply))
            /\ user_embedding' = uemb
            /\ job_candidates' = candidates
            /\ IF score_raises(or_empty(user.skills), candidates)
               THEN /\ scored_jobs' = <<>>
                    /\ filtered_jobs' = <<>>
                    /\ top_jobs' = <<>>
                    /\ rpc' = "failed"
               ELSE \E scored \in {score_jobs_node(or_empty(user.skills),
                                                    uemb, candidates)} :
                    /\ scored_jobs' = scored_after(scored)
                    /\ filtered_jobs' = filtered_of(scored, limit)
                    /\ top_jobs' = top_jobs_of(scored, limit)
                    /\ rpc' = "done"
    /\ UNCHANGED <<job_postings, limit>>

(***************************************************************************)
(* SpecLazy: successive recommendation requests of one user, with profile  *)
(* updates in between, against tables of jobs with and without embeddings  *)
(***************************************************************************)
MaxRequests == 2
MaxLazyJobs == 1

LazyUsers ==
    {UserRow(<<"Python", "AWS">>, None, None, None, NoVector, TRUE),
     UserRow(NoList, None, None, None, NoVector, TRUE),
     UserRow(<<>>, " ", None, "", NoVector, TRUE),
     UserRow(NoList, "resume", None, None, NoVector, TRUE),
     UserRow(<<"js">>, "resume", "3", "BSc", <<4, 3, 0>>, TRUE),
     UserRow(<<"Python">>, "resume", None, None, NoVector, FALSE)}

\* jobs without skills or embedding, with the all-zero embedding, with an
\* embedding opposite to the user's, and with one of another dimension
LazyJobKinds ==
    {JobKind(<<"python", "docker">>, NoVector, TRUE),
     JobKind(NoList, NoVector, TRUE),
     JobKind(<<>>, <<0, 0, 0>>, TRUE),
     JobKind(<<"AWS">>, <<-3, -4, 0>>, TRUE),
     JobKind(<<"JavaScript">>, <<4, 3, 0>>, TRUE),
     JobKind(<<"React">>, <<3, 4>>, TRUE),
     JobKind(NoList, <<3, 4, 0>>, FALSE)}

LazyJobTables ==
    UNION {{[i \in 1..n |-> JobRow(i, kinds[i])] : kinds \in [1..n -> LazyJobKinds]}
           : n \in 0..MaxLazyJobs}

\* the endpoint's default limit, and a limit of one
LazyLimits == {1, 10}

InitLazy ==
    /\ user \in LazyUsers
    /\ job_postings \in LazyJobTables
    /\ limit \in LazyLimits
    /\ user_embedding = NoVector
    /\ job_candidates = <<>>
    /\ scored_jobs = <<>>
    /\ filtered_jobs = <<>>
    /\ top_jobs = <<>>
    /\ rpc = "idle"
    /\ request_log = <<>>

\* the user's next GET /recommendations arrives
NextRequest ==
    /\ rpc \in {"done", "skipped", "failed"}
    /\ Len(request_log) < MaxRequests
    /\ rpc' = "idle"
    /\ user_embedding' = NoVector
    /\ job_candidates' = <<>>
    /\ scored_jobs' = <<>>
    /\ filtered_jobs' = <<>>
    /\ top_jobs' = <<>>
    /\ UNCHANGED <<user, job_postings, limit, request_log>>

\* ProfileUpdate bodies: a field left out is None ({} for the flag)
ProfileUpdates ==
    [skills : {NoList, <<"AWS", "docker">>},
     education_level : {None, "BSc"},
     onboarding_completed : {{}, {TRUE}}]

\* PATCH /profile between two recommendation requests
UpdateProfile ==
    /\ rpc \in {"done", "skipped", "failed"}
    /\ Len(request_log) < MaxRequests
    /\ \E profile_data \in ProfileUpdates :
         user' = [user EXCEPT
            !.skills = IF profile_data.skills # NoList
                       THEN profile_data.skills ELSE @,
            !.education_level = IF profile_data.education_level # None
                                THEN profile_data.education_level ELSE @,
            !.onboarding_completed =
                IF profile_data.onboarding_completed # {}
                THEN CHOOSE b \in profile_data.onboarding_completed : TRUE
                ELSE @]
    /\ request_log' = Append(request_log, "profile_update")
    /\ UNCHANGED <<job_postings, limit, user_embedding, job_candidates,
                   scored_jobs, filtered_jobs, top_jobs, rpc>>

(***************************************************************************)
(* Spec: admin requests on the job store.  Every request runs in its own   *)
(* database session (SessionLocal, autoflush=False): objects added with    *)
(* db.add stay pending, invisible to queries, until db.commit flushes them. *)
(***************************************************************************)
MaxBatch == 2
MaxIds == 2

\* the database sessions of two admin requests in flight
Sessions == {"s1", "s2"}

\* source_url values the scrapers report; "" is job.get("source_url", "")
ScrapedUrls == {"https://a.example/1", ""}

\* normalize_job's records, as far as the store keeps them
NormalizedJobs ==
    {[source_url |-> u, required_skills |-> <<"python">>,
      description_embedding |-> NoVector] : u \in ScrapedUrls}

Batches ==
    UNION {[1..n -> NormalizedJobs] : n \in 1..MaxBatch}

IdleSession ==
    [pc |-> "idle", normalized_jobs |-> <<>>, index |-> 1, pending |-> <<>>,
     response |-> "none"]

\* db.query(JobPosting).filter(JobPosting.source_url == url).first():
\* the committed rows only, the session's pending objects are not flushed
existing_by_url(table, url) ==
    \E i \in DOMAIN table : table[i].source_url = url

\* a source_url column without unique=True: every flush succeeds
unique_unchecked(table, pending) == TRUE

\* source_url = Column(String(1000), unique=True, nullable=False):
\* the INSERTs of a flush succeed iff no inserted url is stored or inserted twice
unique_ok(table, pending) ==
    /\ \A i \in DOMAIN pending : ~existing_by_url(table, pending[i].source_url)
    /\ \A i, j \in DOMAIN pending :
          pending[i].source_url = pending[j].source_url => i = j

\* the rows a successful flush inserts, with fresh primary keys
inserted_rows(pending, first_id) ==
    [i \in DOMAIN pending |->
        [id |-> first_id + i - 1,
         source_url |-> pending[i].source_url,
         required_skills |-> pending[i].required_skills,
         description_embedding |-> pending[i].description_embedding,
         is_active |-> TRUE]]

InitStore ==
    /\ job_postings = <<>>
    /\ sess = [s \in Sessions |-> IdleSession]
    /\ next_id = 1

\* admin_trigger_scrape up to the result of scraper_agent.invoke, in a fresh
\* session (the previous request of this slot, if any, has been answered)
ScrapeStart(s) ==
    /\ sess[s].pc \in {"idle", "done"}
    /\ next_id <= MaxIds
    /\ \E batch \in Batches :
         sess' = [sess EXCEPT ![s] =
                    [IdleSession EXCEPT !.pc = "storing", !.normalized_jobs = batch]]
    /\ UNCHANGED <<job_postings, next_id>>

\* one iteration of "for job_data in normalized_jobs"
ScrapeStoreOne(s) ==
    /\ sess[s].pc = "storing"
    /\ sess[s].index <= Len(sess[s].normalized_jobs)
    /\ LET job_data == sess[s].normalized_jobs[sess[s].index]
       IN  sess' = [sess EXCEPT
                ![s].index = @ + 1,
                ![s].pending =
                    IF existing_by_url(job_postings, job_data.source_url)
                    THEN @                      \* continue: skip duplicates
                    ELSE Append(@, job_data)]   \* db.add(job)
    /\ UNCHANGED <<job_postings, next_id>>

\* db.commit() and the response; an IntegrityError leaves the handler as a
\* 500 and the transaction is rolled back
ScrapeCommit(s) ==
    /\ sess[s].pc = "storing"
    /\ sess[s].index > Len(sess[s].normalized_jobs)
    /\ IF unique_ok(job_postings, sess[s].pending)
       THEN /\ job_postings' =
                 job_postings \o inserted_rows(sess[s].pending, next_id)
            /\ next_id' = next_id + Len(sess[s].pending)
            /\ sess' = [sess EXCEPT ![s].pc = "done", ![s].response = "completed"]
       ELSE /\ sess' = [sess EXCEPT ![s].pc = "done", ![s].response = "error",
                                    ![s].pending = <<>>]
            /\ UNCHANGED <<job_postings, next_id>>

\* admin_update_job: the JobUpdate fields the model keeps (is_active)
AdminUpdateJob ==
    /\ \E i \in DOMAIN job_postings, active \in BOOLEAN :
         job_postings' = [job_postings EXCEPT ![i].is_active = active]
    /\ UNCHANGED <<sess, next_id>>

\* admin_delete_job
AdminDeleteJob ==
    /\ \E i \in DOMAIN job_postings :
         job_postings' = SubSeq(job_postings, 1, i - 1)
                         \o SubSeq(job_postings, i + 1, Len(job_postings))
    /\ UNCHANGED <<sess, next_id>>

(***************************************************************************)
(* job_normalizer: extract_salary and determine_job_type                   *)
(***************************************************************************)
\* text[i], or "" beyond the ends of the text
At(text, i) == IF i >= 1 /\ i <= Len(text) THEN CharAt(text, i) ELSE ""

Digits == "0123456789"

IsDigit(c) == c \in {CharAt(Digits, i) : i \in 1..Len(Digits)}

\* The three regular expressions are matched as re.search matches them: at
\* the leftmost start, every piece greedy.  Backtracking never shortens a
\* piece: what follows a figure (space, '-', '/', 'USD', or nothing) cannot
\* start with a digit, a ',' or a 'k', and what follows \s* is not a space.

\* \d{1,3}: the index after the digits, 0 when there is none
digits_end(text, i) ==
    IF ~IsDigit(At(text, i)) THEN 0
    ELSE IF ~IsDigit(At(text, i + 1)) THEN i + 1
    ELSE IF ~IsDigit(At(text, i + 2)) THEN i + 2
    ELSE i + 3

\* (?:,\d{3})*
RECURSIVE comma_groups_end(_, _)
comma_groups_end(text, j) ==
    IF At(text, j) = "," /\ IsDigit(At(text, j + 1))
       /\ IsDigit(At(text, j + 2)) /\ IsDigit(At(text, j + 3))
    THEN comma_groups_end(text, j + 4)
    ELSE j

\* \d{1,3}(?:,\d{3})*(?:k|K)?: the index after the figure, 0 for no match
figure_end(text, i) ==
    LET d == digits_end(text, i)
    IN  IF d = 0 THEN 0
        ELSE LET c == comma_groups_end(text, d)
             IN  IF At(text, c) \in {"k", "K"} THEN c + 1 ELSE c

\* \s*
RECURSIVE skip_space(_, _)
skip_space(text, j) ==
    IF At(text, j) \in Whitespace THEN skip_space(text, j + 1) ELSE j

\* a literal under re.IGNORECASE
literal_at(text, j, literal) ==
    /\ j + Len(literal) - 1 <= Len(text)
    /\ lower(SubSeq(text, j, j + Len(literal) - 1)) = literal

\* \$(figure)\s*-\s*\$(figure) at i: the captured groups, <<>> for no match
range_dollar_at(text, i) ==
    LET e1 == figure_end(text, i + 1)
        dash == skip_space(text, e1)
        s2 == skip_space(text, dash + 1)
        e2 == figure_end(text, s2 + 1)
    IN  IF /\ At(text, i) = "$" /\ e1 # 0 /\ At(text, dash) = "-"
           /\ At(text, s2) = "$" /\ e2 # 0
        THEN <<SubSeq(text, i + 1, e1 - 1), SubSeq(text, s2 + 1, e2 - 1)>>
        ELSE <<>>

\* \$(figure)\s*/\s*yr at i
per_year_at(text, i) ==
    LET e1 == figure_end(text, i + 1)
        slash == skip_space(text, e1)
        yr == skip_space(text, slash + 1)
    IN  IF /\ At(text, i) = "$" /\ e1 # 0 /\ At(text, slash) = "/"
           /\ literal_at(text, yr, "yr")
        THEN <<SubSeq(text, i + 1, e1 - 1)>>
        ELSE <<>>

\* (figure)\s*-\s*(figure)\s*USD at i
range_usd_at(text, i) ==
    LET e1 == figure_end(text, i)
        dash == skip_space(text, e1)
        s2 == skip_space(text, dash + 1)
        e2 == figure_end(text, s2)
        usd == skip_space(text, e2)
    IN  IF /\ e1 # 0 /\ At(text, dash) = "-" /\ e2 # 0
           /\ literal_at(text, usd, "usd")
        THEN <<SubSeq(text, i, e1 - 1), SubSeq(text, s2, e2 - 1)>>
        ELSE <<>>

\* patterns[p - 1] matched at i
pattern_at(p, text, i) ==
    CASE p = 1 -> range_dollar_at(text, i)
      [] p = 2 -> per_year_at(text, i)
      [] p = 3 -> range_usd_at(text, i)

\* re.search(patterns[p - 1], text, re.IGNORECASE): match.groups(), <<>> for None
re_search(p, text) ==
    [starts \in SUBSET Nat |->
        IF starts = {} THEN <<>>
        ELSE pattern_at(p, text, CHOOSE i \in starts : \A j \in starts : i <= j)
    ][{i \in 1..Len(text) : pattern_at(p, text, i) # <<>>}]

\* float() of the first n characters of a string of digits
RECURSIVE number_of(_, _)
number_of(value, n) ==
    IF n = 0 THEN 0
    ELSE 10 * number_of(value, n - 1)
         + (CHOOSE d \in 0..9 : CharAt(Digits, d + 1) = CharAt(value, n))

\* float() of a string of digits
to_number(value) == number_of(value, Len(value))

\* value.replace(",", "").replace("$", "").strip()
cleaned_value(value) == strip(replace(replace(value, ",", ""), "$", ""))

\* parse_salary_value that ignores the 'k' suffix
parse_salary_value_plain(value) ==
    [v \in STRING |->
        IF lower(At(v, Len(v))) = "k"
        THEN to_number(SubSeq(v, 1, Len(v) - 1))
        ELSE to_number(v)][cleaned_value(value)]

\* the function is applied to the cleaned string, so that v is a value
parse_salary_value(value) ==
    [v \in STRING |->
        IF lower(At(v, Len(v))) = "k"
        THEN to_number(SubSeq(v, 1, Len(v) - 1)) * 1000
        ELSE to_number(v)][cleaned_value(value)]

\* salary_min = None, salary_max = None: no figure is negative
NoAmount == -1

\* the body under "if match:", for match.groups()
salary_of_groups(groups) ==
    [min_val \in Nat |->
        [max_val \in Nat |->
            [min |-> IF min_val <= max_val THEN min_val ELSE max_val,
             max |-> IF min_val <= max_val THEN max_val ELSE min_val,
             currency |-> "USD"]
        ][IF Len(groups) > 1 THEN parse_salary_value(groups[2]) ELSE min_val]
    ][parse_salary_value(groups[1])]

\* the first pattern that matches decides; the functions are applied to the
\* patterns that match and to the match's groups, so that both are values
extract_salary(text) ==
    [matching \in SUBSET (1..3) |->
        IF matching = {}
        THEN [min |-> NoAmount, max |-> NoAmount, currency |-> "USD"]
        ELSE [groups \in Seq(STRING) |-> salary_of_groups(groups)][
                 re_search(CHOOSE p \in matching : \A q \in matching : p <= q,
                           text)]
    ][{p \in 1..3 : re_search(p, text) # <<>>}]

\* sub in text
contains(text, sub) ==
    \E i \in 1..(Len(text) - Len(sub) + 1) : SubSeq(text, i, i + Len(sub) - 1) = sub

\* the classification of the lowercased text
job_type_of(text_lower) ==
    IF contains(text_lower, "intern") \/ contains(text_lower, "internship")
    THEN "internship"
    ELSE IF contains(text_lower, "part-time") \/ contains(text_lower, "part time")
    THEN "part-time"
    ELSE IF contains(text_lower, "contract") \/ contains(text_lower, "freelance")
    THEN "contract"
    ELSE "full-time"

\* the function is applied to text.lower(), so that text_lower is a value
determine_job_type(text) ==
    [text_lower \in STRING |-> job_type_of(text_lower)][lower(text)]

(***************************************************************************)
(* SpecJob: normalize_job's salary and job-type analysis of a scraped job  *)
(***************************************************************************)
MaxTokens == 2

Titles ==
    {"Software Engineer", "Marketing Intern", "International Sales Manager"}

\* pieces of job descriptions
DescriptionTokens ==
    {"$80k", "$120K", "$120000", " - ", "-", "/yr", " / YR",
     " internal", " freelance", "part time"}

RECURSIVE Texts(_)
Texts(n) ==
    IF n = 0 THEN {""}
    ELSE Texts(n - 1) \cup {t \o k : t \in Texts(n - 1), k \in DescriptionTokens}

\* the scraper's salary field; "" is job.get("salary", "")
SalaryFields == {"", "$80k - $120k", "90K-70,500 usd"}

RawJobs ==
    [title : Titles, description : Texts(MaxTokens), salary : SalaryFields]

NotNormalized ==
    [status |-> "raw", job_type |-> None,
     salary_min |-> NoAmount, salary_max |-> NoAmount,
     description_embedding |-> NoVector, title_embedding |-> NoVector]

\* no call of the embedding service yet
NoEmbeddingLog == [description |-> "no_call", title |-> "no_call"]

InitJob ==
    /\ raw_job \in RawJobs
    /\ normalized_job = NotNormalized
    /\ embedding_log = NoEmbeddingLog

\* the embedding field with a zero vector in place of None after a failure
embedding_zero_on_failure(text, reply) ==
    IF text = "" THEN NoVector
    ELSE IF reply = NoVector THEN <<0, 0, 0>> ELSE reply

\* if text: try: generate_embedding(text) except: None; a reply of NoVector
\* stands for an exception raised by the service
guarded_embedding(text, reply) ==
    IF text = "" THEN NoVector
    ELSE IF reply = NoVector THEN NoVector ELSE reply

\* what happened to the call for this text
call_outcome(text, reply) ==
    IF text = "" THEN "no_call"
    ELSE IF reply = NoVector THEN "error" ELSE "ok"

\* normalize_job, as far as salary_info and job_type go
NormalizeJob ==
    /\ normalized_job.status = "raw"
    /\ \E salary_info \in {extract_salary(raw_job.description \o " " \o raw_job.salary)} :
       \E job_type \in {determine_job_type(
                            raw_job.title \o " " \o raw_job.description)} :
       \E description_reply \in EmbeddingReplies :
       \E title_reply \in EmbeddingReplies :
         /\ normalized_job' =
             [status |-> "normalized",
              job_type |-> job_type,
              salary_min |-> salary_info.min,
              salary_max |-> salary_info.max,
              description_embedding |->
                  guarded_embedding(raw_job.description, description_reply),
              title_embedding |->
                  guarded_embedding(raw_job.title, title_reply)]
         /\ embedding_log' =
             [description |-> call_outcome(raw_job.description, description_reply),
              title |-> call_outcome(raw_job.title, title_reply)]
    /\ UNCHANGED raw_job

(***************************************************************************)
(* SpecAdmin: requests of admin and other users to the admin router, one   *)
(* at a time                                                               *)
(***************************************************************************)
MaxScrapes == 1

\* User.is_admin is a nullable Boolean column: True, False or NULL
AdminUsers ==
    ("u1" :> [is_admin |-> "True"]) @@
    ("u2" :> [is_admin |-> "False"]) @@
    ("u3" :> [is_admin |-> "None"])

\* return current_user.is_admin == True, with every user taken for an admin
is_admin_anyone(current_user) == TRUE

\* return current_user.is_admin == True
is_admin(current_user) == current_user.is_admin = "True"

\* job ids of requests: the stored ones and one that is not stored
JobIds == 1..(MaxIds + 1)

\* ScrapeRequest.source values
Sources == {"indeed", "remoteok", "rss", "linkedin"}

valid_sources == {"indeed", "remoteok", "rss"}

NoResponse ==
    [endpoint |-> "none", user |-> "u1", status_code |-> 0, detail |-> ""]

Response(endpoint, uid, status_code, detail) ==
    [endpoint |-> endpoint, user |-> uid, status_code |-> status_code,
     detail |-> detail]

AdminTables ==
    {<<>>,
     <<JobRow(1, JobKind(<<"python">>, NoVector, TRUE))>>,
     <<JobRow(1, JobKind(<<"python">>, NoVector, FALSE))>>}

InitAdmin ==
    /\ users = AdminUsers
    /\ job_postings \in AdminTables
    /\ next_id = Len(job_postings) + 1
    /\ saved_jobs \in SUBSET {[user_id |-> "u2", job_id |-> job_postings[i].id] :
                                i \in DOMAIN job_postings}
    /\ scrape_runs = 0
    /\ admin_response = NoResponse

\* raise HTTPException(status_code=403, detail="Admin access required")
Forbidden(endpoint, uid) ==
    /\ admin_response' = Response(endpoint, uid, 403, "Admin access required")
    /\ UNCHANGED <<users, job_postings, next_id, saved_jobs, scrape_runs>>

\* the read-only endpoints: GET /stats, GET /jobs, GET /users
AdminRead(endpoint, uid) ==
    IF ~is_admin(users[uid]) THEN Forbidden(endpoint, uid)
    ELSE /\ admin_response' = Response(endpoint, uid, 200, "")
         /\ UNCHANGED <<users, job_postings, next_id, saved_jobs, scrape_runs>>

get_admin_stats(uid) == AdminRead("stats", uid)

admin_get_jobs(uid) == AdminRead("jobs", uid)

admin_get_users(uid) == AdminRead("users", uid)

\* the stored job with this id, as a set (empty: .first() is None)
job_by_id(job_id) ==
    {i \in DOMAIN job_postings : job_postings[i].id = job_id}

get_job_details(uid, job_id) ==
    IF ~is_admin(users[uid]) THEN Forbidden("job_details", uid)
    ELSE /\ admin_response' =
               IF job_by_id(job_id) = {}
               THEN Response("job_details", uid, 404, "Job not found")
               ELSE Response("job_details", uid, 200, "")
         /\ UNCHANGED <<users, job_postings, next_id, saved_jobs, scrape_runs>>

admin_update_job(uid, job_id, active) ==
    IF ~is_admin(users[uid]) THEN Forbidden("update_job", uid)
    ELSE IF job_by_id(job_id) = {}
    THEN /\ admin_response' = Response("update_job", uid, 404, "Job not found")
         /\ UNCHANGED <<users, job_postings, next_id, saved_jobs, scrape_runs>>
    ELSE /\ job_postings' =
               [i \in DOMAIN job_postings |->
                   IF job_postings[i].id = job_id
                   THEN [job_postings[i] EXCEPT !.is_active = active]
                   ELSE job_postings[i]]
         /\ admin_response' = Response("update_job", uid, 200, "")
         /\ UNCHANGED <<users, next_id, saved_jobs, scrape_runs>>

admin_delete_job(uid, job_id) ==
    IF ~is_admin(users[uid]) THEN Forbidden("delete_job", uid)
    ELSE IF job_by_id(job_id) = {}
    THEN /\ admin_response' = Response("delete_job", uid, 404, "Job not found")
         /\ UNCHANGED <<users, job_postings, next_id, saved_jobs, scrape_runs>>
    ELSE /\ saved_jobs' = {sj \in saved_jobs : sj.job_id # job_id}
         /\ job_postings' = SelectSeq(job_postings, LAMBDA j : j.id # job_id)
         /\ admin_response' = Response("delete_job", uid, 200, "")
         /\ UNCHANGED <<users, next_id, scrape_runs>>

\* the objects the storing loop adds: the records whose source_url no stored
\* row has (objects added earlier in the loop are pending, not stored)
added_jobs(table, normalized_jobs) ==
    SelectSeq(normalized_jobs,
              LAMBDA job_data : ~existing_by_url(table, job_data.source_url))

admin_trigger_scrape(uid, source, normalized_jobs) ==
    IF ~is_admin(users[uid]) THEN Forbidden("scrape", uid)
    ELSE IF source \notin valid_sources
    THEN /\ admin_response' =
               Response("scrape", uid, 400,
                        "Invalid source: " \o source
                        \o ". Supported sources: indeed, remoteok, rss")
         /\ UNCHANGED <<users, job_postings, next_id, saved_jobs, scrape_runs>>
    ELSE /\ scrape_runs < MaxScrapes
         /\ next_id <= MaxIds
         /\ scrape_runs' = scrape_runs + 1
         /\ LET pending == added_jobs(job_postings, normalized_jobs)
            IN  IF unique_ok(job_postings, pending)
                THEN /\ job_postings' =
                          job_postings \o inserted_rows(pending, next_id)
                     /\ next_id' = next_id + Len(pending)
                     /\ admin_response' =
                          Response("scrape", uid, 200, "Scraping completed")
                ELSE /\ admin_response' =
                          Response("scrape", uid, 500, "Internal Server Error")
                     /\ UNCHANGED <<job_postings, next_id>>
         /\ UNCHANGED <<users, saved_jobs>>

(***************************************************************************)
(* SpecGap: analyze_skill_gap for one user and one job                     *)
(***************************************************************************)
MaxGapSkills == 2

GapSkills == {"python", "Python", "AWS", "docker"}

\* user.skills and job.required_skills: a JSON list or NULL
GapSkillLists ==
    {NoList} \cup
    UNION {[1..n -> GapSkills] : n \in 0..MaxGapSkills}

\* replies of llm_service.generate_text
LlmReplies == {"response", "error"}

NoAnalysis ==
    [match_percentage |-> Zero, skills_matched |-> 0, skills_missing |-> 0,
     total_required |-> 0, analysis |-> ""]

\* the state analyze_skill_gap hands to the agent; node is the node to run
initial_state(user_skills, job_required_skills) ==
    [node |-> "analyze_skills",
     user_skills |-> or_empty(user_skills),
     job_required_skills |-> or_empty(job_required_skills),
     user_has_skills |-> {},
     missing_skills |-> {},
     skill_gap_analysis |-> NoAnalysis]

NoGap == [initial_state(<<>>, <<>>) EXCEPT !.node = "none"]

InitGap ==
    \E user_skills \in GapSkillLists, job_required_skills \in GapSkillLists :
        gap_state = initial_state(user_skills, job_required_skills)

\* set(list)
set_of(xs) == {xs[i] : i \in DOMAIN xs}

analyze_skills_node(state) ==
    LET user_skills == set_of(state.user_skills)
        job_required_skills == set_of(state.job_required_skills)
    IN  [state EXCEPT
            !.user_has_skills = user_skills \cap job_required_skills,
            !.missing_skills = job_required_skills \ user_skills]

match_percentage(user_has_skills, job_required_skills) ==
    IF Len(job_required_skills) > 0
    THEN Rat(Cardinality(user_has_skills) * 100, Len(job_required_skills))
    ELSE Zero

generate_gap_analysis_node(state, reply) ==
    [state EXCEPT
        !.skill_gap_analysis =
            [match_percentage |->
                 match_percentage(state.user_has_skills,
                                  state.job_required_skills),
             skills_matched |-> Cardinality(state.user_has_skills),
             skills_missing |-> Cardinality(state.missing_skills),
             total_required |-> Len(state.job_required_skills),
             analysis |-> IF reply = "error" THEN "Match: " ELSE reply]]

AnalyzeSkills ==
    /\ gap_state.node = "analyze_skills"
    /\ gap_state' =
         [analyze_skills_node(gap_state) EXCEPT !.node = "generate_analysis"]

GenerateAnalysis ==
    /\ gap_state.node = "generate_analysis"
    /\ \E reply \in LlmReplies :
         gap_state' =
           [generate_gap_analysis_node(gap_state, reply) EXCEPT !.node = "END"]

GapIdle == gap_state = NoGap

(***************************************************************************)
(* SpecApi: the endpoints that call external services (embedding API, LLM  *)
(* API, HTTP fetch), one request after another                             *)
(***************************************************************************)
\* str(e) of the exception an external service or the database raises
Causes == {"Connection error.", "429 Too Many Requests"}

\* what a call comes back with: a result, or an exception with this text
Outcomes == {"ok"} \cup Causes

\* file extensions of an uploaded resume
Extensions == {".txt", ".exe"}

Call(service, purpose, outcome) ==
    [service |-> service, purpose |-> purpose, outcome |-> outcome]

\* a response: the status code and the texts of the body
ApiResponse(status_code, body) ==
    [status_code |-> status_code, body |-> body]

ApiRequest(endpoint, uid) == [endpoint |-> endpoint, user |-> uid]

NoRequest == ApiRequest("none", "u1")

InitApi ==
    /\ api_request = NoRequest
    /\ external_calls = <<>>
    /\ api_response = ApiResponse(0, <<>>)

\* generate_embedding: raise Exception(f"Error generating embedding: {str(e)}")
embedding_error(cause) == "Error generating embedding: " \o cause

\* generate_text: raise Exception(f"Error generating text: {str(e)}")
llm_error(cause) == "Error generating text: " \o cause

\* GET /api/recommendations/: the user profile embedding is generated when
\* calls_embedding holds for the user; its failure is caught in
\* get_recommendations; db is the outcome of the database queries
get_user_recommendations(uid, onboarding_completed, needs_embedding, emb, db) ==
    /\ api_request' = ApiRequest("recommendations", uid)
    /\ IF ~onboarding_completed
       THEN /\ external_calls' = <<>>
            /\ api_response' = ApiResponse(200,
                 <<"Please complete your profile to get personalized recommendations">>)
       ELSE /\ external_calls' =
                 IF needs_embedding
                 THEN <<Call("embedding", "user profile", emb)>>
                 ELSE <<>>
            /\ api_response' =
                 IF db # "ok"
                 THEN ApiResponse(200,
                        <<"Unable to generate recommendations at this time. Please try again later.",
                          IF is_admin(users[uid]) THEN db ELSE None>>)
                 ELSE ApiResponse(200, <<"recommendations">>)

\* generate_response_node: the assistant's text
advisor_response(llm) ==
    IF llm = "ok" THEN "response"
    ELSE "I apologize, but I'm having trouble processing your request right now. Please try again later. Error: "
         \o llm_error(llm)

\* POST /api/chat/message: retrieve_context_node embeds the message outside
\* any try, generate_response_node calls the LLM inside one
send_message(uid, emb, llm) ==
    /\ api_request' = ApiRequest("chat", uid)
    /\ IF emb # "ok"
       THEN /\ external_calls' = <<Call("embedding", "user message", emb)>>
            /\ api_response' = ApiResponse(500, <<"Internal Server Error">>)
       ELSE /\ external_calls' =
                 <<Call("embedding", "user message", emb),
                   Call("llm", "advisor response", llm)>>
            /\ api_response' = ApiResponse(200, <<advisor_response(llm)>>)

\* POST /api/user/resume
upload_resume(uid, extension, resume_text, llm, emb) ==
    /\ api_request' = ApiRequest("resume", uid)
    /\ IF extension # ".txt"
       THEN /\ external_calls' = <<>>
            /\ api_response' = ApiResponse(400,
                 <<"Error processing resume: " \o "Unsupported file format: "
                   \o extension>>)
       ELSE IF resume_text = ""
       THEN /\ external_calls' = <<Call("llm", "resume parsing", llm)>>
            /\ api_response' = ApiResponse(200,
                 <<"Resume uploaded and parsed successfully">>)
       ELSE /\ external_calls' =
                 <<Call("llm", "resume parsing", llm),
                   Call("embedding", "resume text", emb)>>
            /\ api_response' =
                 IF emb # "ok"
                 THEN ApiResponse(400,
                        <<"Error processing resume: " \o embedding_error(emb)>>)
                 ELSE ApiResponse(200,
                        <<"Resume uploaded and parsed successfully">>)

\* GET /api/user/skill-gap/{job_id}
get_skill_gap_analysis(uid, job_found, llm) ==
    /\ api_request' = ApiRequest("skill_gap", uid)
    /\ IF ~job_found
       THEN /\ external_calls' = <<>>
            /\ api_response' = ApiResponse(404, <<"Job not found">>)
       ELSE /\ external_calls' = <<Call("llm", "gap analysis", llm)>>
            /\ api_response' = ApiResponse(200,
                 <<generate_gap_analysis_node(
                       analyze_skills_node(initial_state(<<>>, <<"AWS">>)),
                       llm).skill_gap_analysis.analysis>>)

\* scrape_jobs_node: error_msg = f"Error scraping from {source}: {str(e)}"
scrape_error(source, cause) ==
    "Error scraping from " \o source \o ": " \o cause

\* POST /api/admin/jobs/scrape, as far as its external calls go: the fetch
\* of scrape_jobs_node (one job found) and normalize_job's two embeddings
scrape_request(uid, source, http, description_emb, title_emb) ==
    /\ api_request' = ApiRequest("scrape", uid)
    /\ IF ~is_admin(users[uid])
       THEN /\ external_calls' = <<>>
            /\ api_response' = ApiResponse(403, <<"Admin access required">>)
       ELSE IF http # "ok"
       THEN /\ external_calls' = <<Call("http", source, http)>>
            /\ api_response' = ApiResponse(200,
                 <<"Scraping completed", scrape_error(source, http)>>)
       ELSE /\ external_calls' =
                 <<Call("http", source, http),
                   Call("embedding", "job description", description_emb),
                   Call("embedding", "job title", title_emb)>>
            /\ api_response' = ApiResponse(200, <<"Scraping completed">>)

ApiIdle == InitApi

(***************************************************************************)
(* SpecScore: the combined score of two candidates of one scoring run      *)
(***************************************************************************)
ScoreGrid == 4

\* scores in [0, 1]: the multiples of 1 / ScoreGrid
GridScores == {Rat(k, ScoreGrid) : k \in 0..ScoreGrid}

ScoreArgs == [similarity_score : GridScores, skill_match_ratio : GridScores]

InitScore ==
    /\ score_args \in [1..2 -> ScoreArgs]
    /\ score_results = <<>>

\* the combined_score statement of score_jobs_node, for both candidates
CombineScores ==
    /\ score_results = <<>>
    /\ score_results' =
         [i \in 1..2 |->
             combined_score_of(score_args[i].similarity_score,
                               score_args[i].skill_match_ratio)]
    /\ UNCHANGED score_args

ScoreIdle ==
    /\ score_args = [i \in 1..2 |->
                       [similarity_score |-> Zero, skill_match_ratio |-> Zero]]
    /\ score_results = <<Zero, Zero>>

(***************************************************************************)
(* BaseScraper._rate_limit and the request that follows it (SpecLimiter)   *)
(***************************************************************************)
SCRAPING_RATE_LIMIT == 10
MaxFetches == 3
\* the longest time that passes between two fetches of one instance
MaxElapsed == 7
\* time.sleep returns no earlier than asked for, and may return later
MaxOversleep == 1
\* time.time() when the scraper is constructed, in seconds
StartTime == 100

rate_limit_delay == 60 \div SCRAPING_RATE_LIMIT

\* a scraper as __init__ leaves it
InitLimiter ==
    /\ scraper_clock = StartTime
    /\ last_request_time = 0
    /\ fetch_log = <<>>

sleep_time_none(time_since_last) == 0

sleep_time(time_since_last) ==
    IF time_since_last < rate_limit_delay
    THEN rate_limit_delay - time_since_last
    ELSE 0

\* _rate_limit() and the request issued right after it: the request goes out
\* at the time _rate_limit stores in last_request_time
Fetch ==
    /\ Len(fetch_log) < MaxFetches
    /\ \E elapsed \in 0..MaxElapsed, oversleep \in 0..MaxOversleep :
         \E current_time \in {scraper_clock + elapsed} :
           \E asked \in {sleep_time(current_time - last_request_time)} :
             \E slept \in {IF asked > 0 THEN asked + oversleep ELSE 0} :
               /\ scraper_clock' = current_time + slept
               /\ last_request_time' = current_time + slept
               /\ fetch_log' = Append(fetch_log,
                                      [called |-> current_time,
                                       slept |-> slept,
                                       sent |-> current_time + slept])

LimiterIdle ==
    /\ scraper_clock = 0 /\ last_request_time = 0 /\ fetch_log = <<>>

(***************************************************************************)
(* retrieve_context_node of the career advisor (SpecContext)               *)
(***************************************************************************)
ContextLimit == 50
ContextTop == 5
MaxPattern == 2

\* the job table is a pattern of rows repeated: once, often enough to pass
\* ContextTop, and often enough to pass ContextLimit
Repetitions == {1, 3, 26}

ContextKinds ==
    {JobKind(<<>>, embedding, active) :
        embedding \in {NoVector, <<3, 4, 0>>, <<4, 3, 0>>, <<-3, 4, 0>>,
                       <<0, 0, 0>>, <<3, 4>>},
        active \in BOOLEAN}

ContextTables ==
    UNION {{[i \in 1..(n * reps) |-> JobRow(i, kinds[((i - 1) % n) + 1])] :
               kinds \in [1..n -> ContextKinds], reps \in Repetitions}
           : n \in 1..MaxPattern}

\* replies of generate_embedding(user_message); NoVector for a raised error
QueryReplies == {NoVector, <<3, 4, 0>>, <<0, 0, 5>>, <<0, 0, 0>>}

InitContext ==
    /\ job_postings \in ContextTables
    /\ query_embedding = NoVector
    /\ context_jobs = <<>>
    /\ relevant_jobs = <<>>
    /\ context_status = "idle"

\* db.query(JobPosting).filter(is_active == True,
\*                             description_embedding.isnot(None)).limit(50)
context_query(table) ==
    Slice(SelectSeq(table, LAMBDA j : j.is_active
                                      /\ j.description_embedding # NoVector),
          ContextLimit)

\* the loop over jobs: (job, similarity) for every job whose similarity is
\* computed, in the order of jobs; a job whose similarity raises is skipped
job_scores_of(jobs, query) ==
    [k \in 1..Len(SelectSeq(jobs, LAMBDA j :
                     ~cosine_raises(query, j.description_embedding))) |->
        [id |-> SelectSeq(jobs, LAMBDA j :
                     ~cosine_raises(query, j.description_embedding))[k].id,
         similarity |->
             cosine_similarity(query,
                 SelectSeq(jobs, LAMBDA j :
                     ~cosine_raises(query, j.description_embedding))[k]
                         .description_embedding)]]

\* the place of job_scores[i] after job_scores.sort(key=similarity,
\* reverse=True): behind every entry of higher similarity and behind the
\* earlier entries of equal similarity (the sort is stable)
place_after_sort(job_scores, i) ==
    1 + Cardinality({j \in DOMAIN job_scores :
                        \/ RatLt(job_scores[i].similarity,
                                 job_scores[j].similarity)
                        \/ /\ j < i
                           /\ job_scores[j].similarity
                                = job_scores[i].similarity})

unsorted_top(job_scores) == Slice(job_scores, ContextTop)

\* job_scores.sort(key=lambda x: x[1], reverse=True); job_scores[:5]
sorted_top(job_scores) ==
    [p \in 1..(IF Len(job_scores) < ContextTop THEN Len(job_scores)
               ELSE ContextTop) |->
        job_scores[CHOOSE i \in DOMAIN job_scores :
                      place_after_sort(job_scores, i) = p]]

\* retrieve_context_node when the embedding of the user message is returned
RetrieveContext ==
    /\ context_status = "idle"
    /\ \E reply \in QueryReplies \ {NoVector} :
         \E jobs \in {context_query(job_postings)} :
           \E job_scores \in {job_scores_of(jobs, reply)} :
             /\ query_embedding' = reply
             /\ context_jobs' = jobs
             /\ relevant_jobs' = sorted_top(job_scores)
             /\ context_status' = "done"

\* retrieve_context_node when generate_embedding raises: the exception
\* leaves the node before the query
RetrieveContextRaises ==
    /\ context_status = "idle"
    /\ context_status' = "raised"
    /\ UNCHANGED <<query_embedding, context_jobs, relevant_jobs>>

ContextIdle ==
    /\ query_embedding = NoVector /\ context_jobs = <<>>
    /\ relevant_jobs = <<>> /\ context_status = "off"

(***************************************************************************)
(* The chat router: send_message and get_messages (SpecChat)               *)
(***************************************************************************)
MaxConversations == 2
MaxMessages == 4

ChatUsers == {"u1", "u2"}
Contents == {"How do I become a data engineer?", "Which jobs fit me?"}
ChatOutcomes == {"ok", "Connection error."}

\* Conversation.id of the i-th conversation created (uuid4)
ConversationId(i) == "c" \o ToString(i)

\* the ids a request can name: none, those of the conversations that exist
\* (of any user) and one that no conversation has
RequestedIds ==
    {None} \cup {conversations[c].id : c \in DOMAIN conversations}
           \cup {"c-unknown"}

ChatRequest(endpoint, uid, conversation_id) ==
    [endpoint |-> endpoint, user |-> uid, conversation_id |-> conversation_id]

ChatResponse(status_code, conversation_id, history, body) ==
    [status_code |-> status_code, conversation_id |-> conversation_id,
     history |-> history, body |-> body]

InitChat ==
    /\ conversations = <<>>
    /\ messages = <<>>
    /\ chat_request = ChatRequest("none", "u1", None)
    /\ chat_response = ChatResponse(0, None, <<>>, <<>>)

\* db.query(Conversation).filter(Conversation.id == conversation_id).first()
conversation_of_anyone(table, conversation_id, uid) ==
    SelectSeq(table, LAMBDA c : c.id = conversation_id)

\* db.query(Conversation).filter(Conversation.id == conversation_id,
\*                               Conversation.user_id == current_user.id)
\* as a list of no or one row
conversation_of(table, conversation_id, uid) ==
    SelectSeq(table, LAMBDA c : c.id = conversation_id /\ c.user_id = uid)

\* db.query(Message).filter(Message.conversation_id == conversation_id)
\*   .order_by(Message.created_at).all()
messages_of(table, conversation_id) ==
    SelectSeq(table, LAMBDA m : m.conversation_id = conversation_id)

\* [{"role": msg.role, "content": msg.content} for msg in history]
conversation_history(history) ==
    [i \in DOMAIN history |->
        [role |-> history[i].role, content |-> history[i].content]]

\* message.content[:50]
title_of(content) ==
    SubSeq(content, 1, IF Len(content) < 50 THEN Len(content) ELSE 50)

Message(conversation_id, role, content) ==
    [conversation_id |-> conversation_id, role |-> role, content |-> content]

\* POST /api/chat/message: the conversation is found or created and
\* committed, the user message is committed, the advisor is invoked with the
\* history, and the assistant message is committed unless the advisor raises
\* (the embedding call of retrieve_context_node is outside any try)
SendMessage(uid, content, conversation_id, emb, llm) ==
    /\ Len(messages) + 2 <= MaxMessages
    /\ \E found \in {IF conversation_id # None
                     THEN conversation_of(conversations, conversation_id, uid)
                     ELSE <<>>} :
         /\ found = <<>> => Len(conversations) < MaxConversations
         /\ \E conversation \in
                 {IF found # <<>> THEN found[1]
                  ELSE [id |-> ConversationId(Len(conversations) + 1),
                        user_id |-> uid, title |-> title_of(content)]} :
              \E stored \in
                   {Append(messages,
                           Message(conversation.id, "user", content))} :
                /\ conversations' =
                       IF found # <<>> THEN conversations
                       ELSE Append(conversations, conversation)
                /\ chat_request' =
                       ChatRequest("send_message", uid, conversation_id)
                /\ IF emb # "ok"
                   THEN /\ messages' = stored
                        /\ chat_response' =
                              ChatResponse(500, conversation.id,
                                  conversation_history(
                                      messages_of(stored, conversation.id)),
                                  <<>>)
                   ELSE /\ messages' =
                              Append(stored,
                                     Message(conversation.id, "assistant",
                                             advisor_response(llm)))
                        /\ chat_response' =
                              ChatResponse(200, conversation.id,
                                  conversation_history(
                                      messages_of(stored, conversation.id)),
                                  <<advisor_response(llm)>>)

\* GET /api/chat/conversations/{conversation_id}/messages
GetMessages(uid, conversation_id) ==
    /\ chat_request' = ChatRequest("get_messages", uid, conversation_id)
    /\ chat_response' =
          IF conversation_of(conversations, conversation_id, uid) = <<>>
          THEN ChatResponse(404, conversation_id, <<>>,
                            <<"Conversation not found">>)
          ELSE ChatResponse(200, conversation_id, <<>>,
                            conversation_history(
                                messages_of(messages, conversation_id)))
    /\ UNCHANGED <<conversations, messages>>

ChatIdle ==
    /\ conversations = <<>> /\ messages = <<>>
    /\ chat_request = ChatRequest("off", "u1", None)
    /\ chat_response = ChatResponse(0, None, <<>>, <<>>)

(***************************************************************************)
(* save_job and unsave_job of the jobs router (SpecSaved). A save_job       *)
(* request reads the saved_jobs table and later commits its insert; the    *)
(* table has no unique constraint on (user_id, job_id) and the handler     *)
(* takes no lock, so requests served at the same time interleave between   *)
(* the two statements.                                                     *)
(***************************************************************************)
MaxInFlight == 2
MaxSavedRows == 2

SavingUsers == {"u1", "u2"}
JobsOnFile == {"j1", "j2"}
RequestedJobs == JobsOnFile \cup {"j-unknown"}
Connections == 1..MaxInFlight

NoSaveRequest == [at |-> "idle", user |-> "u1", job_id |-> "j1"]

SaveResponse(status_code, message, saved_job_id) ==
    [status_code |-> status_code, message |-> message,
     saved_job_id |-> saved_job_id]

\* SavedJob.id of the n-th row (uuid4)
SavedJobId(n) == "s" \o ToString(n)

InitSaved ==
    /\ saved_table = <<>>
    /\ saved_next_id = 1
    /\ save_requests = [c \in Connections |-> NoSaveRequest]
    /\ save_response = SaveResponse(0, "", None)

\* db.query(SavedJob).filter(SavedJob.user_id == current_user.id,
\*                           SavedJob.job_id == job_id)
existing_saved(table, uid, job_id) ==
    SelectSeq(table, LAMBDA row : row.user_id = uid /\ row.job_id = job_id)

\* save_job up to `if existing:`: 404 for an unknown job, the existing row's
\* id when there is one, else on to the insert
SaveJobCheck(c, uid, job_id) ==
    /\ save_requests[c].at = "idle"
    /\ IF job_id \notin JobsOnFile
       THEN /\ save_response' = SaveResponse(404, "Job not found", None)
            /\ UNCHANGED save_requests
       ELSE IF existing_saved(saved_table, uid, job_id) # <<>>
       THEN /\ save_response' =
                 SaveResponse(200, "Job already saved",
                     existing_saved(saved_table, uid, job_id)[1].id)
            /\ UNCHANGED save_requests
       ELSE /\ saved_next_id <= MaxSavedRows
            /\ save_requests' =
                 [save_requests EXCEPT ![c] =
                     [at |-> "insert", user |-> uid, job_id |-> job_id]]
            /\ UNCHANGED save_response
    /\ UNCHANGED <<saved_table, saved_next_id>>

\* save_job from SavedJob(...) to the return: db.add, db.commit, db.refresh
SaveJobInsert(c) ==
    /\ save_requests[c].at = "insert"
    /\ saved_table' = Append(saved_table,
                             [id |-> SavedJobId(saved_next_id),
                              user_id |-> save_requests[c].user,
                              job_id |-> save_requests[c].job_id])
    /\ saved_next_id' = saved_next_id + 1
    /\ save_requests' = [save_requests EXCEPT ![c] = NoSaveRequest]
    /\ save_response' = SaveResponse(200, "Job saved successfully",
                                     SavedJobId(saved_next_id))

\* the table without its first row of the user and job
without_first(table, uid, job_id) ==
    SelectSeq(table,
              LAMBDA row : row # existing_saved(table, uid, job_id)[1])

\* DELETE /{job_id}/save: the first matching row is deleted
UnsaveJob(uid, job_id) ==
    /\ IF existing_saved(saved_table, uid, job_id) = <<>>
       THEN /\ save_response' =
                 SaveResponse(404, "Saved job not found", None)
            /\ UNCHANGED saved_table
       ELSE /\ saved_table' = without_first(saved_table, uid, job_id)
            /\ save_response' =
                 SaveResponse(200, "Job unsaved successfully", None)
    /\ UNCHANGED <<saved_next_id, save_requests>>

SavedIdle ==
    /\ saved_table = <<>> /\ saved_next_id = 0
    /\ save_requests = <<>>
    /\ save_response = SaveResponse(0, "", None)

(***************************************************************************)
(* The four job listings shown to users, and admin_update_job between them *)
(* (SpecListing)                                                           *)
(***************************************************************************)
MaxListed == 2
MaxPageSize == 2

\* job rows as a scrape stores them: is_active=True
ListedKinds ==
    {JobKind(<<"JavaScript", "js", "React">>, <<3, 4, 0>>, TRUE),
     JobKind(<<"AWS">>, <<2, -1, 2>>, TRUE)}

\* the users who ask for recommendations
ListedUsers ==
    {UserRow(<<"Python", "AWS">>, None, None, None, NoVector, TRUE),
     UserRow(<<"js", "Machine Learning">>, "resume", "3", "BSc", <<3, 4, 0>>, TRUE)}

ListedTables ==
    UNION {{[i \in 1..n |-> JobRow(i, kinds[i])] :
               kinds \in [1..n -> ListedKinds]} : n \in 1..MaxListed}

Listing(endpoint, jobs) == [endpoint |-> endpoint, jobs |-> jobs]

InitListing ==
    /\ users = AdminUsers
    /\ job_postings \in ListedTables
    /\ next_id = Len(job_postings) + 1
    /\ saved_jobs = {[user_id |-> "u2", job_id |-> job_postings[i].id] :
                        i \in DOMAIN job_postings}
    /\ scrape_runs = 0
    /\ admin_response = NoResponse
    /\ listing = Listing("none", <<>>)

\* query.offset((page - 1) * page_size).limit(page_size).all()
page_of(rows, page, page_size) ==
    SubSeq(rows, (page - 1) * page_size + 1,
           IF page * page_size < Len(rows) THEN page * page_size
           ELSE Len(rows))

ids_of(rows) == [k \in DOMAIN rows |-> rows[k].id]

\* GET /api/jobs/ without search filters: the active rows, newest first
get_jobs(table, page, page_size) ==
    page_of(Reverse(SelectSeq(table, LAMBDA j : j.is_active)),
            page, page_size)

\* db.query(JobPosting).join(SavedJob).filter(SavedJob.user_id == uid)
saved_rows_any(table, saved, uid) ==
    SelectSeq(table, LAMBDA j :
        [user_id |-> uid, job_id |-> j.id] \in saved)

\* db.query(JobPosting).join(SavedJob).filter(SavedJob.user_id == uid,
\*                                            JobPosting.is_active == True)
saved_rows(table, saved, uid) ==
    SelectSeq(table, LAMBDA j :
        /\ [user_id |-> uid, job_id |-> j.id] \in saved
        /\ j.is_active)

\* the orders SavedJob.created_at can put the rows in
Orderings(rows) ==
    {[k \in DOMAIN rows |-> rows[order[k]]] :
        order \in {f \in [DOMAIN rows -> DOMAIN rows] :
                      \A a, b \in DOMAIN rows : f[a] = f[b] => a = b}}

\* GET /api/jobs/
ListJobs ==
    /\ \E page \in 1..2, page_size \in 1..MaxPageSize :
         listing' = Listing("jobs",
                            ids_of(get_jobs(job_postings, page, page_size)))

\* GET /api/jobs/saved/list
ListSavedJobs ==
    /\ \E uid \in {"u1", "u2"}, page \in 1..2, page_size \in 1..MaxPageSize :
         \E rows \in Orderings(saved_rows(job_postings, saved_jobs, uid)) :
           listing' = Listing("saved", ids_of(page_of(rows, page, page_size)))

\* get_recommendations for an onboarded user: the ids of top_jobs
ListRecommendations ==
    /\ \E u \in ListedUsers, lim \in {1, MaxPageSize},
          reply \in EmbeddingReplies :
         \E candidates \in {candidates_of(active_jobs(job_postings))} :
           listing' =
             Listing("recommendations",
                 IF score_raises(or_empty(u.skills), candidates) THEN <<>>
                 ELSE ids_of(top_jobs_of(
                          score_jobs_node(or_empty(u.skills),
                                          embedding_for(u, reply),
                                          candidates),
                          lim)))

\* retrieve_context_node of the chat advisor: the ids of relevant_jobs
ListContext ==
    /\ \E reply \in QueryReplies \ {NoVector} :
         listing' =
           Listing("chat_context",
                   ids_of(sorted_top(
                       job_scores_of(context_query(job_postings), reply))))

ListingIdle == listing = Listing("off", <<>>)

(***************************************************************************)
(* The specifications                                                      *)
(***************************************************************************)
NormIdle ==
    /\ skill = None /\ normalized = None /\ renormalized = None /\ npc = "off"

RecIdle ==
    /\ user = UserRow(<<>>, None, None, None, NoVector, FALSE)
    /\ limit = 0
    /\ user_embedding = NoVector
    /\ job_candidates = <<>> /\ scored_jobs = <<>>
    /\ filtered_jobs = <<>> /\ top_jobs = <<>>
    /\ rpc = "off"
    /\ request_log = <<>>

StoreIdle ==
    /\ sess = [s \in Sessions |-> IdleSession]
    /\ next_id = 1

CosIdle ==
    /\ embedding1 = NoVector /\ embedding2 = NoVector /\ similarity = NoCall

JobIdle ==
    /\ raw_job = [title |-> "", description |-> "", salary |-> ""]
    /\ normalized_job = NotNormalized
    /\ embedding_log = NoEmbeddingLog

AdminIdle ==
    /\ users = AdminUsers /\ saved_jobs = {} /\ scrape_runs = 0
    /\ admin_response = NoResponse

Init ==
    /\ InitStore /\ NormIdle /\ RecIdle /\ CosIdle /\ JobIdle /\ AdminIdle
    /\ GapIdle /\ ApiIdle
    /\ ScoreIdle
    /\ LimiterIdle
    /\ ContextIdle
    /\ ChatIdle
    /\ SavedIdle
    /\ ListingIdle

Next ==
    \/ \E s \in Sessions :
         /\ \/ ScrapeStart(s)
            \/ ScrapeStoreOne(s)
            \/ ScrapeCommit(s)
         /\ UNCHANGED outsideStore
    \/ AdminUpdateJob /\ UNCHANGED outsideStore
    \/ AdminDeleteJob /\ UNCHANGED outsideStore

Spec == Init /\ [][Next]_vars

InitRecSpec ==
    InitRec /\ NormIdle /\ StoreIdle /\ CosIdle /\ JobIdle /\ AdminIdle
    /\ GapIdle /\ ApiIdle
    /\ ScoreIdle
    /\ LimiterIdle
    /\ ContextIdle
    /\ ChatIdle
    /\ SavedIdle
    /\ ListingIdle

NextRec ==
    \/ RecommendationsNotOnboarded /\ UNCHANGED outsideRec
    \/ GetRecommendations /\ UNCHANGED outsideRec

SpecRec == InitRecSpec /\ [][NextRec]_vars

InitNormSpec ==
    /\ InitNorm /\ RecIdle /\ StoreIdle /\ CosIdle /\ JobIdle /\ AdminIdle
    /\ GapIdle /\ ApiIdle
    /\ job_postings = <<>>
    /\ ScoreIdle
    /\ LimiterIdle
    /\ ContextIdle
    /\ ChatIdle
    /\ SavedIdle
    /\ ListingIdle

NextNorm ==
    \/ NormalizeOnce /\ UNCHANGED outsideNorm
    \/ NormalizeTwice /\ UNCHANGED outsideNorm

SpecNorm == InitNormSpec /\ [][NextNorm]_vars

InitCosSpec ==
    /\ InitCos /\ NormIdle /\ RecIdle /\ StoreIdle /\ JobIdle /\ AdminIdle
    /\ GapIdle /\ ApiIdle
    /\ job_postings = <<>>
    /\ ScoreIdle
    /\ LimiterIdle
    /\ ContextIdle
    /\ ChatIdle
    /\ SavedIdle
    /\ ListingIdle

NextCos ==
    \/ CosineSimilarity /\ UNCHANGED outsideCos
    \/ CosineSimilarityRaises /\ UNCHANGED outsideCos

SpecCos == InitCosSpec /\ [][NextCos]_vars

InitJobSpec ==
    /\ InitJob /\ NormIdle /\ RecIdle /\ StoreIdle /\ CosIdle /\ AdminIdle
    /\ GapIdle /\ ApiIdle
    /\ job_postings = <<>>
    /\ ScoreIdle
    /\ LimiterIdle
    /\ ContextIdle
    /\ ChatIdle
    /\ SavedIdle
    /\ ListingIdle

NextJob == NormalizeJob /\ UNCHANGED outsideJob

SpecJob == InitJobSpec /\ [][NextJob]_vars

InitLazySpec ==
    InitLazy /\ NormIdle /\ StoreIdle /\ CosIdle /\ JobIdle /\ AdminIdle
    /\ GapIdle /\ ApiIdle
    /\ ScoreIdle
    /\ LimiterIdle
    /\ ContextIdle
    /\ ChatIdle
    /\ SavedIdle
    /\ ListingIdle

NextLazy ==
    \/ RecommendationsNotOnboarded /\ UNCHANGED outsideRec
    \/ GetRecommendations /\ UNCHANGED outsideRec
    \/ NextRequest /\ UNCHANGED outsideRec
    \/ UpdateProfile /\ UNCHANGED outsideRec

SpecLazy == InitLazySpec /\ [][NextLazy]_vars

InitAdminSpec ==
    /\ InitAdmin /\ NormIdle /\ RecIdle /\ CosIdle /\ JobIdle /\ GapIdle
    /\ ApiIdle
    /\ sess = [s \in Sessions |-> IdleSession]
    /\ ScoreIdle
    /\ LimiterIdle
    /\ ContextIdle
    /\ ChatIdle
    /\ SavedIdle
    /\ ListingIdle

NextAdmin ==
    \/ \E uid \in DOMAIN users : get_admin_stats(uid) /\ UNCHANGED outsideAdmin
    \/ \E uid \in DOMAIN users : admin_get_jobs(uid) /\ UNCHANGED outsideAdmin
    \/ \E uid \in DOMAIN users, job_id \in JobIds :
          get_job_details(uid, job_id) /\ UNCHANGED outsideAdmin
    \/ \E uid \in DOMAIN users, job_id \in JobIds, active \in BOOLEAN :
          admin_update_job(uid, job_id, active) /\ UNCHANGED outsideAdmin
    \/ \E uid \in DOMAIN users, job_id \in JobIds :
          admin_delete_job(uid, job_id) /\ UNCHANGED outsideAdmin
    \/ \E uid \in DOMAIN users : admin_get_users(uid) /\ UNCHANGED outsideAdmin
    \/ \E uid \in DOMAIN users, source \in Sources, batch \in Batches :
          admin_trigger_scrape(uid, source, batch) /\ UNCHANGED outsideAdmin

SpecAdmin == InitAdminSpec /\ [][NextAdmin]_vars

InitGapSpec ==
    /\ InitGap /\ NormIdle /\ RecIdle /\ StoreIdle /\ CosIdle /\ JobIdle
    /\ AdminIdle /\ ApiIdle
    /\ job_postings = <<>>
    /\ ScoreIdle
    /\ LimiterIdle
    /\ ContextIdle
    /\ ChatIdle
    /\ SavedIdle
    /\ ListingIdle

NextGap ==
    \/ AnalyzeSkills /\ UNCHANGED outsideGap
    \/ GenerateAnalysis /\ UNCHANGED outsideGap

SpecGap == InitGapSpec /\ [][NextGap]_vars

InitApiSpec ==
    /\ InitApi /\ NormIdle /\ RecIdle /\ StoreIdle /\ CosIdle /\ JobIdle
    /\ AdminIdle /\ GapIdle
    /\ job_postings = <<>>
    /\ ScoreIdle
    /\ LimiterIdle
    /\ ContextIdle
    /\ ChatIdle
    /\ SavedIdle
    /\ ListingIdle

NextApi ==
    \/ \E uid \in DOMAIN users, onboarding_completed \in BOOLEAN,
          needs_embedding \in BOOLEAN, emb \in Outcomes, db \in Outcomes :
          /\ get_user_recommendations(uid, onboarding_completed,
                                      needs_embedding, emb, db)
          /\ UNCHANGED outsideApi
    \/ \E uid \in DOMAIN users, emb \in Outcomes, llm \in Outcomes :
          send_message(uid, emb, llm) /\ UNCHANGED outsideApi
    \/ \E uid \in DOMAIN users, extension \in Extensions,
          resume_text \in {"", "resume"}, llm \in Outcomes, emb \in Outcomes :
          /\ upload_resume(uid, extension, resume_text, llm, emb)
          /\ UNCHANGED outsideApi
    \/ \E uid \in DOMAIN users, job_found \in BOOLEAN, llm \in Outcomes :
          get_skill_gap_analysis(uid, job_found, llm) /\ UNCHANGED outsideApi
    \/ \E uid \in DOMAIN users, source \in valid_sources, http \in Outcomes,
          description_emb \in Outcomes, title_emb \in Outcomes :
          /\ scrape_request(uid, source, http, description_emb, title_emb)
          /\ UNCHANGED outsideApi

SpecApi == InitApiSpec /\ [][NextApi]_vars

InitScoreSpec ==
    /\ InitScore
    /\ NormIdle /\ RecIdle /\ StoreIdle /\ CosIdle /\ JobIdle /\ AdminIdle
    /\ GapIdle /\ ApiIdle
    /\ job_postings = <<>>
    /\ LimiterIdle
    /\ ContextIdle
    /\ ChatIdle
    /\ SavedIdle
    /\ ListingIdle

NextScore == CombineScores /\ UNCHANGED outsideScore

SpecScore == InitScoreSpec /\ [][NextScore]_vars

InitLimiterSpec ==
    /\ InitLimiter
    /\ NormIdle /\ RecIdle /\ StoreIdle /\ CosIdle /\ JobIdle /\ AdminIdle
    /\ GapIdle /\ ApiIdle /\ ScoreIdle
    /\ job_postings = <<>>
    /\ ContextIdle
    /\ ChatIdle
    /\ SavedIdle
    /\ ListingIdle

NextLimiter == Fetch /\ UNCHANGED outsideLimiter

SpecLimiter == InitLimiterSpec /\ [][NextLimiter]_vars

InitContextSpec ==
    /\ InitContext
    /\ NormIdle /\ RecIdle /\ StoreIdle /\ CosIdle /\ JobIdle /\ AdminIdle
    /\ GapIdle /\ ApiIdle /\ ScoreIdle /\ LimiterIdle
    /\ ChatIdle
    /\ SavedIdle
    /\ ListingIdle

NextContext ==
    \/ RetrieveContext /\ UNCHANGED outsideContext
    \/ RetrieveContextRaises /\ UNCHANGED outsideContext

SpecContext == InitContextSpec /\ [][NextContext]_vars

InitChatSpec ==
    /\ InitChat
    /\ NormIdle /\ RecIdle /\ StoreIdle /\ CosIdle /\ JobIdle /\ AdminIdle
    /\ GapIdle /\ ApiIdle /\ ScoreIdle /\ LimiterIdle /\ ContextIdle
    /\ job_postings = <<>>
    /\ SavedIdle
    /\ ListingIdle

NextChat ==
    \/ \E uid \in ChatUsers, content \in Contents,
          conversation_id \in RequestedIds,
          emb \in ChatOutcomes, llm \in ChatOutcomes :
          /\ SendMessage(uid, content, conversation_id, emb, llm)
          /\ UNCHANGED outsideChat
    \/ \E uid \in ChatUsers, conversation_id \in RequestedIds \ {None} :
          /\ GetMessages(uid, conversation_id)
          /\ UNCHANGED outsideChat

SpecChat == InitChatSpec /\ [][NextChat]_vars

InitSavedSpec ==
    /\ InitSaved
    /\ NormIdle /\ RecIdle /\ StoreIdle /\ CosIdle /\ JobIdle /\ AdminIdle
    /\ GapIdle /\ ApiIdle /\ ScoreIdle /\ LimiterIdle /\ ContextIdle
    /\ ChatIdle
    /\ job_postings = <<>>
    /\ ListingIdle

NextSaved ==
    \/ \E c \in Connections, uid \in SavingUsers, job_id \in RequestedJobs :
          SaveJobCheck(c, uid, job_id) /\ UNCHANGED outsideSaved
    \/ \E c \in Connections : SaveJobInsert(c) /\ UNCHANGED outsideSaved
    \/ \E uid \in SavingUsers, job_id \in RequestedJobs :
          UnsaveJob(uid, job_id) /\ UNCHANGED outsideSaved

SpecSaved == InitSavedSpec /\ [][NextSaved]_vars

InitListingSpec ==
    /\ InitListing
    /\ NormIdle /\ RecIdle /\ CosIdle /\ JobIdle /\ GapIdle /\ ApiIdle
    /\ sess = [s \in Sessions |-> IdleSession]
    /\ ScoreIdle /\ LimiterIdle /\ ContextIdle /\ ChatIdle /\ SavedIdle

NextListing ==
    \/ \E uid \in {"u1", "u2"}, job_id \in JobIds, active \in BOOLEAN :
          admin_update_job(uid, job_id, active) /\ UNCHANGED outsideAdmin
    \/ ListJobs /\ UNCHANGED outsideListing
    \/ ListSavedJobs /\ UNCHANGED outsideListing
    \/ ListRecommendations /\ UNCHANGED outsideListing
    \/ ListContext /\ UNCHANGED outsideListing

SpecListing == InitListingSpec /\ [][NextListing]_vars

(***************************************************************************)
(* Properties of the recommendation scorer (SpecRec)                       *)
(***************************************************************************)
HasActiveJob == \E i \in DOMAIN job_postings : job_postings[i].is_active

Ids(jobs) == {jobs[i].id : i \in DOMAIN jobs}

\* C1: whenever at least one active job exists and limit >= 1, the list
\* get_recommendations returns is non-empty and has at most limit entries,
\* even when no candidate passes the scoring thresholds.
FallbackGuarantee ==
    (rpc = "done" /\ limit >= 1 /\ HasActiveJob)
        => (top_jobs # <<>> /\ Len(top_jobs) <= limit)

\* The scores score_jobs_node computes for a candidate, kept or not.
ScoresOf(c) == score_job(c, user_embedding, normalized_set(user.skills))

\* C4: a candidate is in scored_jobs if and only if skill_match_count > 0 or
\* similarity_score > 0.3 or combined_score > 0.1.
InclusionGate ==
    rpc = "done" =>
        \A i \in DOMAIN job_candidates :
            LET c == job_candidates[i]
                s == ScoresOf(c)
            IN  (c.id \in Ids(scored_jobs))
                <=> \/ s.skill_match_count > 0
                    \/ 10 * s.similarity_score[1] > 3 * s.similarity_score[2]
                    \/ 10 * s.combined_score[1] > s.combined_score[2]

\* a request in which one candidate was kept on skill overlap alone (no
\* similarity) and another candidate was excluded
InclusionGateWitness ==
    /\ rpc = "done"
    /\ \E i \in DOMAIN scored_jobs :
          /\ scored_jobs[i].skill_match_count > 0
          /\ scored_jobs[i].similarity_score = Zero
    /\ \E i \in DOMAIN job_candidates :
          /\ job_candidates[i].id \notin Ids(scored_jobs)
          /\ ScoresOf(job_candidates[i]).skill_match_count = 0

\* C5: combined_score = 0.8 * skill_match_ratio when similarity_score = 0
\* and skill_match_ratio > 0, otherwise 0.5 * similarity_score + 0.5 *
\* skill_match_ratio; skills [Python, AWS] without an embedding against
\* [python, docker] give count 1, ratio 0.5, similarity 0, combined 0.4.
CombinedScoreRule ==
    rpc = "done" =>
        \A i \in DOMAIN scored_jobs :
            LET sj == scored_jobs[i]
                sim == sj.similarity_score
                ratio == sj.skill_match_ratio
                comb == sj.combined_score
            IN  /\ IF sim[1] = 0 /\ ratio[1] > 0
                   THEN 10 * comb[1] * ratio[2] = 8 * ratio[1] * comb[2]
                   ELSE 2 * comb[1] * sim[2] * ratio[2]
                          = comb[2] * (sim[1] * ratio[2] + ratio[1] * sim[2])
                /\ (/\ user.skills = <<"Python", "AWS">>
                    /\ user_embedding = NoVector
                    /\ sj.required_skills = <<"python", "docker">>)
                   => /\ sj.skill_match_count = 1
                      /\ sj.skill_match_ratio = <<1, 2>>
                      /\ sj.similarity_score = <<0, 1>>
                      /\ sj.combined_score = <<2, 5>>

\* the end-to-end scenario, and a job scored on the blended branch
CombinedScoreWitness ==
    /\ rpc = "done"
    /\ user.skills = <<"Python", "AWS">>
    /\ user_embedding = NoVector
    /\ \E i \in DOMAIN scored_jobs :
          scored_jobs[i].required_skills = <<"python", "docker">>
    /\ \E i \in DOMAIN scored_jobs :
          /\ scored_jobs[i].skill_match_count > 0
          /\ scored_jobs[i].description_embedding # NoVector

\* the non-empty skills of a list
Listed(skills) == {s \in Elems(skills) : s # None /\ s # ""}

\* C6 as stated: skill_match_count is the size of the intersection of the
\* normalized skill sets and skill_match_ratio = skill_match_count / (number
\* of the job's listed skills), 0 when the job lists none.
RatioOverListedSkills ==
    rpc = "done" =>
        \A i \in DOMAIN scored_jobs :
            LET sj == scored_jobs[i]
            IN  IF Len(sj.required_skills) = 0
                THEN sj.skill_match_ratio = <<0, 1>>
                ELSE sj.skill_match_ratio[1] * Len(sj.required_skills)
                        = sj.skill_match_count * sj.skill_match_ratio[2]

\* C6 amended: skill_match_count is the size of the intersection of the
\* normalized skill sets and skill_match_ratio = skill_match_count / (number
\* of distinct normalized keys of the job's non-empty listed skills), 0 when
\* there is none: duplicate and alias-equivalent entries count once.
RatioOverDistinctKeys ==
    rpc = "done" =>
        \A i \in DOMAIN scored_jobs :
            LET sj == scored_jobs[i]
                jobKeys == {normalize_skill(s) : s \in Listed(sj.required_skills)}
                userKeys == {normalize_skill(s) : s \in Listed(user.skills)}
            IN  /\ sj.skill_match_count = Cardinality(userKeys \cap jobKeys)
                /\ IF jobKeys = {}
                   THEN sj.skill_match_ratio = <<0, 1>>
                   ELSE sj.skill_match_ratio[1] * Cardinality(jobKeys)
                           = sj.skill_match_count * sj.skill_match_ratio[2]

\* a kept job that lists alias-equivalent skills and matches the user
RatioWitness ==
    /\ rpc = "done"
    /\ \E i \in DOMAIN scored_jobs :
          LET sj == scored_jobs[i]
          IN  /\ sj.skill_match_count > 0
              /\ Cardinality({normalize_skill(s) : s \in Listed(sj.required_skills)})
                    < Len(sj.required_skills)

\* C7: the returned list is ordered by non-increasing combined_score, and
\* every returned job scores at least as high as every kept job that the
\* limit cut off.
RankedByCombinedScore ==
    rpc = "done" =>
        /\ \A i, j \in DOMAIN top_jobs :
              i < j => RatLe(top_jobs[j].combined_score, top_jobs[i].combined_score)
        /\ \A i \in DOMAIN top_jobs, k \in DOMAIN scored_jobs :
              scored_jobs[k].id \notin Ids(top_jobs)
                  => RatLe(scored_jobs[k].combined_score, top_jobs[i].combined_score)

\* two returned jobs with different scores that were stored in the opposite
\* order, and a kept job cut off by the limit
RankedWitness ==
    /\ rpc = "done"
    /\ Len(top_jobs) >= 2
    /\ RatLt(top_jobs[2].combined_score, top_jobs[1].combined_score)
    /\ top_jobs[2].id < top_jobs[1].id
    /\ \E k \in DOMAIN scored_jobs : scored_jobs[k].id \notin Ids(top_jobs)

\* C8: for every integer limit, get_recommendations returns at most
\* max(limit, 0) jobs.
TruncatedToLimit ==
    rpc = "done" => Len(top_jobs) <= (IF limit > 0 THEN limit ELSE 0)

(***************************************************************************)
(* Properties of normalize_skill (SpecNorm)                                *)
(***************************************************************************)
\* C9: normalize_skill(normalize_skill(s)) = normalize_skill(s) for every s.
NormalizeIdempotent ==
    npc = "twice" => renormalized = normalized

\* s with every character in olds replaced by new ("" deletes it)
Substitute(s, olds, new) ==
    LET pieces == [i \in 1..Len(s) |->
                     IF CharAt(s, i) \in olds THEN new ELSE CharAt(s, i)]
    IN  join("", pieces)

\* the alias-table lookup with pass-through
Lookup(c) == IF c \in DOMAIN variations THEN variations[c] ELSE c

\* C10 as stated: lowercase, strip, replace every '-', '_' and '.' by a
\* space, then look the result up in the alias table; unmapped strings pass
\* through; empty or None input yields the empty string.
NormalizeDotsToSpaces ==
    npc # "start" =>
        normalized =
            IF skill = None \/ skill = "" THEN ""
            ELSE Lookup(Substitute(strip(lower(skill)), {"-", "_", "."}, " "))

\* C10 amended: lowercase, strip, replace every '-' and '_' by a space and
\* delete every '.', then look the result up in the alias table; unmapped
\* strings pass through; empty or None input yields the empty string.
NormalizeDotsDeleted ==
    npc # "start" =>
        normalized =
            IF skill = None \/ skill = "" THEN ""
            ELSE Lookup(Substitute(
                     Substitute(strip(lower(skill)), {"-", "_"}, " "),
                     {"."}, ""))

\* a skill with a dot whose cleaned form hits the alias table
NormalizeWitness ==
    /\ npc = "once"
    /\ skill = "Node.js"
    /\ normalized = "nodejs"

(***************************************************************************)
(* Properties of the job store (Spec)                                      *)
(***************************************************************************)
RowsWithUrl(table, url) == {k \in DOMAIN table : table[k].source_url = url}

\* C2: when a scrape request ingests records with identical source_url, in
\* one batch or in successive requests, the request completes and exactly
\* one posting with that source_url is stored.
ScrapeDeduplicates ==
    [][\A s \in Sessions :
          (sess[s].pc = "storing" /\ sess'[s].pc = "done")
          => /\ sess'[s].response = "completed"
             /\ \A i \in DOMAIN sess[s].normalized_jobs :
                   Cardinality(RowsWithUrl(job_postings',
                       sess[s].normalized_jobs[i].source_url)) = 1]_vars

\* C3: no two stored JobPosting rows have the same source_url, after any
\* interleaving of scrape ingestion, admin update and admin delete.
UniqueSourceUrl ==
    \A i, j \in DOMAIN job_postings :
        job_postings[i].source_url = job_postings[j].source_url => i = j

\* two postings are stored, one of them deactivated by an update, and a
\* concurrent scrape that tried to insert a stored url was rejected
UniqueSourceUrlWitness ==
    /\ Len(job_postings) = 2
    /\ \E i \in DOMAIN job_postings : ~job_postings[i].is_active
    /\ \E s \in Sessions : sess[s].response = "error"

(***************************************************************************)
(* Properties of cosine_similarity (SpecCos)                               *)
(***************************************************************************)
\* C11: cosine_similarity(a, b) returns a value in [0, 1] for every pair of
\* equal-length vectors, also when their dot product is negative, and
\* returns 0 whenever either vector has zero norm.
CosineInUnitInterval ==
    similarity.status = "returned" =>
        /\ RatLe(Zero, similarity.value)
        /\ RatLe(similarity.value, One)
        /\ (dot(embedding1, embedding1) = 0 \/ dot(embedding2, embedding2) = 0)
              => similarity.value = Zero

(***************************************************************************)
(* Properties of the job normalizer (SpecJob)                              *)
(***************************************************************************)
\* the text extract_salary is given
SalaryText == raw_job.description \o " " \o raw_job.salary

\* the amount a captured figure stands for: its digits, times 1000 under a
\* 'k' suffix
FigureValue(figure) ==
    LET ds == Substitute(figure, {",", "k", "K"}, "")
        value[i \in 0..Len(ds)] ==
            IF i = 0 THEN 0
            ELSE 10 * value[i - 1] + (CHOOSE d \in 0..9 : ToString(d) = CharAt(ds, i))
    IN  value[Len(ds)] * (IF At(figure, Len(figure)) \in {"k", "K"} THEN 1000 ELSE 1)

\* C12: whenever one of the salary patterns matches, min <= max whichever
\* captured figure is larger, and min and max are the captured figures with
\* every 'k'-suffixed figure multiplied by 1000 ("$80k - $120k" gives 80000
\* and 120000); a single '/yr' figure gives min = max; when no pattern
\* matches, min and max are both absent.
SalaryOrdered ==
    normalized_job.status = "normalized" =>
        LET first == re_search(1, SalaryText)
            second == re_search(2, SalaryText)
            third == re_search(3, SalaryText)
            figures == IF first # <<>> THEN first
                       ELSE IF second # <<>> THEN second ELSE third
            lo == normalized_job.salary_min
            hi == normalized_job.salary_max
        IN  /\ figures = <<>> => (lo = NoAmount /\ hi = NoAmount)
            /\ figures # <<>> =>
                  /\ lo # NoAmount /\ hi # NoAmount
                  /\ lo <= hi
                  /\ {lo, hi} = {FigureValue(figures[i]) : i \in DOMAIN figures}
            /\ (first = <<>> /\ second # <<>>) => lo = hi
            /\ SalaryText = " $80k - $120k" => (lo = 80000 /\ hi = 120000)

\* a range whose first figure is the larger one and carries a 'k' suffix
SalaryOrderedWitness ==
    /\ normalized_job.status = "normalized"
    /\ raw_job.description = ""
    /\ raw_job.salary = "90K-70,500 usd"
    /\ normalized_job.salary_min = 70500
    /\ normalized_job.salary_max = 90000

\* the text determine_job_type is given
JobTypeText == raw_job.title \o " " \o raw_job.description

IsLetter(c) == c # "" /\ contains(LowerCase \o UpperCase, c)

\* word occurs in text as a whole word, in any letter case
HasWord(text, word) ==
    \E i \in 1..(Len(text) - Len(word) + 1) :
        /\ lower(SubSeq(text, i, i + Len(word) - 1)) = word
        /\ ~IsLetter(At(text, i - 1))
        /\ ~IsLetter(At(text, i + Len(word)))

InternshipWording == {"intern", "interns", "internship", "internships"}

\* C13: the job type is 'internship' if an internship keyword occurs, else
\* 'part-time' if a part-time keyword occurs, else 'contract' if a contract
\* or freelance keyword occurs, else 'full-time'; a text without any
\* internship wording is never classified as internship.
JobTypePriority ==
    normalized_job.status = "normalized" =>
        LET t == lower(JobTypeText)
        IN  /\ normalized_job.job_type =
                   IF contains(t, "intern") THEN "internship"
                   ELSE IF contains(t, "part-time") \/ contains(t, "part time")
                   THEN "part-time"
                   ELSE IF contains(t, "contract") \/ contains(t, "freelance")
                   THEN "contract"
                   ELSE "full-time"
            /\ normalized_job.job_type = "internship"
                  => \E w \in InternshipWording : HasWord(JobTypeText, w)

(***************************************************************************)
(* Properties of successive recommendation requests (SpecLazy)             *)
(***************************************************************************)
Last(xs) == xs[Len(xs)]

HasProfileText(u) ==
    \/ u.resume_text # None /\ strip(u.resume_text) # ""
    \/ u.skills # NoList /\ u.skills # <<>>
    \/ u.experience_years # None /\ u.experience_years # ""
    \/ u.education_level # None /\ u.education_level # ""

\* C19: get_recommendations calls the embedding service if and only if the
\* user has no stored resume embedding and has some non-empty profile text;
\* when the call succeeds the embedding is stored on the user, and the user's
\* next request makes no embedding call; when it fails nothing is stored and
\* the jobs are scored on skills only.
LazyEmbedding ==
    [][(rpc = "idle" /\ rpc' \in {"done", "failed"}) =>
          /\ Last(request_log') # "no_call"
                <=> (user.resume_embedding = NoVector /\ HasProfileText(user))
          /\ Last(request_log') = "embedded"
                => /\ user_embedding' # NoVector
                   /\ user'.resume_embedding = user_embedding'
          /\ Last(request_log') = "embedding_failed"
                => /\ user' = user
                   /\ user_embedding' = NoVector
                   /\ \A i \in DOMAIN scored_jobs' :
                         /\ scored_jobs'[i].similarity_score = Zero
                         /\ scored_jobs'[i].skill_match_count > 0
          /\ \A i \in 1..(Len(request_log') - 1) :
                request_log'[i] = "embedded"
                    => request_log'[i + 1] \in {"no_call", "profile_update"}]_vars

\* a request that generated and stored the embedding, followed by a request
\* that made no embedding call
LazyEmbeddingWitness ==
    /\ rpc = "done"
    /\ request_log = <<"embedded", "no_call">>
    /\ user.resume_embedding = user_embedding

\* C20: similarity_score is the cosine similarity clamped to [0, 1] when the
\* user embedding and the job's description embedding both exist, and 0 when
\* either is absent or the computation raises; a missing embedding or skill
\* list makes no request fail, and a job with neither embedding nor skills
\* scores 0 on similarity, ratio and combined score.
SimilarityClamped ==
    /\ rpc # "failed"
    /\ rpc = "done" =>
        \A i \in DOMAIN job_candidates :
            LET c == job_candidates[i]
                s == ScoresOf(c)
                sim == s.similarity_score
                e == c.description_embedding
                u == user_embedding
            IN  /\ IF e # NoVector /\ u # NoVector /\ Len(e) = Len(u)
                   THEN IF dot(u, e) <= 0 \/ dot(u, u) = 0 \/ dot(e, e) = 0
                        THEN sim = Zero
                        ELSE /\ 0 < sim[1] /\ sim[1] <= sim[2]
                             /\ sim[1] * sim[1] * dot(u, u) * dot(e, e)
                                  = dot(u, e) * dot(u, e) * sim[2] * sim[2]
                   ELSE sim = Zero
                /\ (e = NoVector /\ c.required_skills = <<>>)
                      => /\ sim = Zero
                         /\ s.skill_match_ratio = Zero
                         /\ s.combined_score = Zero
                /\ \A k \in DOMAIN scored_jobs :
                      scored_jobs[k].id = c.id
                          => scored_jobs[k].similarity_score = sim

\* a request that scored a job whose embedding is opposite to the user's,
\* for a user without a skill list
SimilarityClampedWitness ==
    /\ rpc = "done"
    /\ user.skills = NoList
    /\ user_embedding # NoVector
    /\ \E i \in DOMAIN job_candidates :
          /\ job_candidates[i].description_embedding # NoVector
          /\ Len(job_candidates[i].description_embedding) = Len(user_embedding)
          /\ dot(user_embedding, job_candidates[i].description_embedding) < 0

\* C24: the caller-side secondary filter of get_recommendations never removes
\* a job: every job that passed the gate of score_jobs_node passes the filter,
\* so filtered_jobs equals scored_jobs and the similarity fallback (filtered
\* list empty while scored_jobs is not) is not taken.
SecondaryFilterKeepsAll ==
    rpc = "done" =>
        /\ \A i \in DOMAIN scored_jobs : passes_filter(scored_jobs[i])
        /\ filtered_jobs = scored_jobs
        /\ ~fallback_taken(scored_jobs)

\* a request with two jobs kept, one of them without any skill match, and a
\* candidate the gate excluded
SecondaryFilterWitness ==
    /\ rpc = "done"
    /\ Len(scored_jobs) >= 2
    /\ \E i \in DOMAIN scored_jobs : scored_jobs[i].skill_match_count = 0
    /\ \E i \in DOMAIN scored_jobs : scored_jobs[i].similarity_score = Zero
    /\ Len(job_candidates) > Len(scored_jobs)

\* C29: for every job in the output of score_jobs_node the similarity score,
\* the skill match ratio and the combined score lie in [0, 1], and
\* skill_match_count exceeds neither the number of distinct normalized user
\* skills nor the number of distinct normalized job skills.
ScoreRanges ==
    rpc = "done" =>
        \A i \in DOMAIN scored_jobs :
            LET sj == scored_jobs[i]
            IN  /\ RatLe(Zero, sj.similarity_score)
                /\ RatLe(sj.similarity_score, One)
                /\ RatLe(Zero, sj.skill_match_ratio)
                /\ RatLe(sj.skill_match_ratio, One)
                /\ RatLe(Zero, sj.combined_score)
                /\ RatLe(sj.combined_score, One)
                /\ sj.skill_match_count <=
                      Cardinality(normalized_set(or_empty(user.skills)))
                /\ sj.skill_match_count <=
                      Cardinality(normalized_set(sj.required_skills))

\* a request whose output holds a job of similarity 1 and a job all of whose
\* skills the user has
ScoreRangesWitness ==
    /\ rpc = "done"
    /\ \E i \in DOMAIN scored_jobs : scored_jobs[i].similarity_score = One
    /\ \E i \in DOMAIN scored_jobs :
          /\ scored_jobs[i].skill_match_ratio = One
          /\ scored_jobs[i].skill_match_count > 0

(***************************************************************************)
(* Properties of the admin router (SpecAdmin)                              *)
(***************************************************************************)
\* C17: every admin endpoint (stats, job list, job details, job update, job
\* delete, user list, scrape trigger) called by a user whose is_admin flag is
\* not true answers 403, leaves the stored jobs, saved jobs and users
\* unchanged and starts no scrape.
AdminOnly ==
    [][users[admin_response'.user].is_admin # "True" =>
          /\ admin_response'.status_code = 403
          /\ job_postings' = job_postings
          /\ saved_jobs' = saved_jobs
          /\ users' = users
          /\ scrape_runs' = scrape_runs]_vars

\* a user whose flag is NULL was refused a scrape while jobs and saved jobs
\* are stored and an admin's scrape has run before
AdminOnlyWitness ==
    /\ admin_response.endpoint = "scrape"
    /\ admin_response.user = "u3"
    /\ admin_response.status_code = 403
    /\ job_postings # <<>>
    /\ saved_jobs # {}
    /\ scrape_runs > 0

(***************************************************************************)
(* Properties of the skill-gap analysis (SpecGap)                          *)
(***************************************************************************)
\* the required skills whose normalized key is the key of some user skill
MatchedByKey ==
    {s \in set_of(gap_state.job_required_skills) :
        \E u \in set_of(gap_state.user_skills) :
            normalize_skill(u) = normalize_skill(s)}

\* C18: the skill-gap analysis compares skills in normalized form: a required
\* skill whose normalized key equals that of some user skill is in
\* user_has_skills and not in missing_skills, and match_percentage is
\* |user_has_skills| / |required| * 100, or 0 when the job lists no skills.
GapComparesNormalized ==
    /\ gap_state.node \in {"generate_analysis", "END"} =>
         /\ MatchedByKey \subseteq gap_state.user_has_skills
         /\ MatchedByKey \cap gap_state.missing_skills = {}
    /\ gap_state.node = "END" =>
         gap_state.skill_gap_analysis.match_percentage =
           IF Len(gap_state.job_required_skills) = 0 THEN Zero
           ELSE Rat(Cardinality(gap_state.user_has_skills) * 100,
                    Len(gap_state.job_required_skills))

(***************************************************************************)
(* Properties of the endpoints' error handling (SpecApi)                   *)
(***************************************************************************)
\* the external calls of the request that raised
FailedCalls ==
    {i \in DOMAIN external_calls : external_calls[i].outcome # "ok"}

\* C15: a single failure of an external call (embedding API, LLM API, HTTP
\* fetch) during a recommendations, chat, resume upload, skill-gap or scrape
\* request is caught and replaced by a degraded default: the request still
\* completes with a normal response, and the failed call is not made again.
GracefulDegradation ==
    Cardinality(FailedCalls) = 1 =>
        /\ api_response.status_code = 200
        /\ \A i \in FailedCalls : \A j \in DOMAIN external_calls :
              j > i =>
                 \/ external_calls[j].service # external_calls[i].service
                 \/ external_calls[j].purpose # external_calls[i].purpose

\* the texts of exceptions a request can raise
ExceptionTexts == Causes \cup {"Unsupported file format"}

\* C16: raw exception text reaches a response only when the requester is an
\* admin: on every endpoint that can fail a user who is not an admin receives
\* a generic failure message that does not contain the exception text.
ExceptionTextOnlyForAdmins ==
    users[api_request.user].is_admin # "True" =>
        \A i \in DOMAIN api_response.body : \A text \in ExceptionTexts :
            ~contains(api_response.body[i], text)

(***************************************************************************)
(* Properties of the combined score (SpecScore)                            *)
(***************************************************************************)
\* C30: of two candidates with the same skill_match_ratio the one with the
\* higher similarity_score never receives a lower combined_score, and of two
\* candidates with the same similarity_score the one with the higher
\* skill_match_ratio never receives a lower combined_score.
RankingMonotone ==
    score_results # <<>> =>
        \A i, j \in 1..2 :
            /\ (/\ score_args[i].skill_match_ratio = score_args[j].skill_match_ratio
                /\ RatLt(score_args[j].similarity_score,
                         score_args[i].similarity_score))
                  => RatLe(score_results[j], score_results[i])
            /\ (/\ score_args[i].similarity_score = score_args[j].similarity_score
                /\ RatLt(score_args[j].skill_match_ratio,
                         score_args[i].skill_match_ratio))
                  => RatLe(score_results[j], score_results[i])

(***************************************************************************)
(* Properties of normalize_job's embedding calls (SpecJob)                 *)
(***************************************************************************)
\* C21: normalize_job is not failed by the embedding service: when the
\* description or the title embedding call raises, normalize_job still
\* returns a complete record whose embedding field for that call is absent
\* and whose other fields are what they are with a working service.
NormalizeSurvivesEmbeddingFailure ==
    normalized_job.status = "normalized" =>
        /\ embedding_log.description = "error"
              => normalized_job.description_embedding = NoVector
        /\ embedding_log.title = "error"
              => normalized_job.title_embedding = NoVector
        /\ embedding_log.description = "ok"
              => normalized_job.description_embedding # NoVector
        /\ embedding_log.title = "ok"
              => normalized_job.title_embedding # NoVector
        /\ normalized_job.job_type = determine_job_type(JobTypeText)
        /\ \E salary_info \in {extract_salary(SalaryText)} :
              /\ normalized_job.salary_min = salary_info.min
              /\ normalized_job.salary_max = salary_info.max

\* a job with a salary range normalized while the description call raised
\* and the title call returned a vector
NormalizeSurvivesWitness ==
    /\ normalized_job.status = "normalized"
    /\ embedding_log = [description |-> "error", title |-> "ok"]
    /\ normalized_job.description_embedding = NoVector
    /\ normalized_job.title_embedding # NoVector
    /\ normalized_job.salary_min # NoAmount
    /\ normalized_job.job_type = "contract"

(***************************************************************************)
(* Properties of the scrapers' rate limiting (SpecLimiter)                 *)
(***************************************************************************)
\* C22: any two consecutive outbound requests of one scraper instance are at
\* least rate_limit_delay (60 / SCRAPING_RATE_LIMIT seconds) apart, and the
\* first request of a fresh instance is not delayed.
RequestsSpacedByDelay ==
    /\ \A i \in 2..Len(fetch_log) :
          fetch_log[i].sent - fetch_log[i - 1].sent >= rate_limit_delay
    /\ fetch_log # <<>> =>
          /\ fetch_log[1].slept = 0
          /\ fetch_log[1].sent = fetch_log[1].called

\* a second request that came too early, was held back and went out exactly
\* rate_limit_delay after the first, which was not held back
RequestsSpacedWitness ==
    /\ Len(fetch_log) >= 2
    /\ fetch_log[1].slept = 0
    /\ fetch_log[2].slept > 0
    /\ fetch_log[2].called - fetch_log[1].sent < rate_limit_delay
    /\ fetch_log[2].sent - fetch_log[1].sent = rate_limit_delay

(***************************************************************************)
(* Properties of the chat context retrieval (SpecContext)                  *)
(***************************************************************************)
\* the similarity retrieve_context_node computes for a considered job
ContextSimilarity(job) ==
    cosine_similarity(query_embedding, job.description_embedding)

Scorable(job) == ~cosine_raises(query_embedding, job.description_embedding)

Returned(job) == \E p \in DOMAIN relevant_jobs : relevant_jobs[p].id = job.id

\* C23: retrieve_context_node considers at most 50 jobs, all of them active
\* and with a description embedding, and returns at most 5 of them, ordered
\* by non-increasing cosine similarity to the message embedding; no
\* considered job left out has a strictly higher similarity than a returned
\* one.
ContextIsTopFive ==
    context_status = "done" =>
        /\ Len(context_jobs) <= 50
        /\ \A k \in DOMAIN context_jobs :
              /\ context_jobs[k].is_active
              /\ context_jobs[k].description_embedding # NoVector
              /\ \E i \in DOMAIN job_postings : job_postings[i] = context_jobs[k]
        /\ Len(relevant_jobs) <= 5
        /\ \A p \in DOMAIN relevant_jobs :
              \E k \in DOMAIN context_jobs :
                 /\ context_jobs[k].id = relevant_jobs[p].id
                 /\ Scorable(context_jobs[k])
                 /\ relevant_jobs[p].similarity
                      = ContextSimilarity(context_jobs[k])
        /\ \A p, q \in DOMAIN relevant_jobs :
              (p < q) => /\ RatLe(relevant_jobs[q].similarity,
                                  relevant_jobs[p].similarity)
                         /\ relevant_jobs[p].id # relevant_jobs[q].id
        /\ \A k \in DOMAIN context_jobs :
              (Scorable(context_jobs[k]) /\ ~Returned(context_jobs[k]))
                  => /\ Len(relevant_jobs) = 5
                     /\ \A p \in DOMAIN relevant_jobs :
                          ~RatLt(relevant_jobs[p].similarity,
                                 ContextSimilarity(context_jobs[k]))

\* more than 50 matching rows of two different similarities: 50 are
\* considered, 5 are returned and a considered job is left out
ContextWitness ==
    /\ context_status = "done"
    /\ Len(SelectSeq(job_postings,
                     LAMBDA j : j.is_active
                                /\ j.description_embedding # NoVector)) > 50
    /\ Len(context_jobs) = 50
    /\ Len(relevant_jobs) = 5
    /\ \E k \in DOMAIN context_jobs :
          /\ Scorable(context_jobs[k])
          /\ ~Returned(context_jobs[k])
          /\ RatLt(ContextSimilarity(context_jobs[k]),
                   relevant_jobs[5].similarity)
    /\ context_jobs[1].id # relevant_jobs[1].id

(***************************************************************************)
(* Properties of the chat router (SpecChat)                                *)
(***************************************************************************)
\* the roles of a conversation's messages, oldest first
RolesOf(conversation_id) ==
    [k \in DOMAIN messages_of(messages, conversation_id) |->
        messages_of(messages, conversation_id)[k].role]

\* C25: after any sequence of send_message requests, failing embedding or LLM
\* calls included, every stored conversation has messages, and they
\* alternate strictly between user and assistant: none is left with an
\* unanswered user message.
MessagesPaired ==
    \A c \in DOMAIN conversations :
        /\ RolesOf(conversations[c].id) # <<>>
        /\ Len(RolesOf(conversations[c].id)) % 2 = 0
        /\ \A k \in DOMAIN RolesOf(conversations[c].id) :
              RolesOf(conversations[c].id)[k]
                 = IF k % 2 = 1 THEN "user" ELSE "assistant"

OwnerOf(table, conversation_id) ==
    {table[c].user_id : c \in {d \in DOMAIN table : table[d].id = conversation_id}}

IsPrefix(xs, ys) ==
    /\ Len(xs) <= Len(ys)
    /\ \A k \in DOMAIN xs : xs[k] = ys[k]

\* C26: send_message appends only to a conversation owned by the requester (a
\* foreign or unknown conversation_id starts a new conversation of the
\* requester), the history given to the advisor holds only messages of that
\* conversation, and get_messages on a conversation of another user answers
\* 404.
IsolationStep ==
    /\ \A k \in (Len(messages) + 1)..Len(messages') :
          /\ messages'[k].conversation_id = chat_response'.conversation_id
          /\ OwnerOf(conversations', messages'[k].conversation_id)
                = {chat_request'.user}
    /\ SubSeq(messages', 1, Len(messages)) = messages
    /\ chat_request'.endpoint = "send_message" =>
          /\ OwnerOf(conversations, chat_request'.conversation_id)
                # {chat_request'.user}
               => /\ Len(conversations') = Len(conversations) + 1
                  /\ chat_response'.conversation_id
                        = conversations'[Len(conversations')].id
                  /\ chat_response'.conversation_id
                        # chat_request'.conversation_id
                  /\ OwnerOf(conversations, chat_response'.conversation_id)
                        = {}
          /\ IsPrefix(chat_response'.history,
                      conversation_history(
                          messages_of(messages',
                                      chat_response'.conversation_id)))
    /\ chat_request'.endpoint = "get_messages" =>
          /\ OwnerOf(conversations', chat_request'.conversation_id)
                # {chat_request'.user}
               => chat_response'.status_code = 404
          /\ chat_response'.status_code = 200 =>
                chat_response'.body =
                    conversation_history(
                        messages_of(messages', chat_request'.conversation_id))

ConversationIsolation == [][IsolationStep]_vars

\* u2 sent a message naming the conversation of u1: it went into a new
\* conversation of u2 and the conversation of u1 kept its two messages
ConversationIsolationWitness ==
    /\ chat_request = ChatRequest("send_message", "u2", ConversationId(1))
    /\ chat_response.status_code = 200
    /\ chat_response.conversation_id = ConversationId(2)
    /\ Len(chat_response.history) = 1
    /\ OwnerOf(conversations, ConversationId(1)) = {"u1"}
    /\ OwnerOf(conversations, ConversationId(2)) = {"u2"}
    /\ Len(messages_of(messages, ConversationId(1))) = 2
    /\ Len(messages_of(messages, ConversationId(2))) = 2

(***************************************************************************)
(* Properties of saved jobs (SpecSaved)                                    *)
(***************************************************************************)
\* C27: after any interleaving of save_job and unsave_job requests, two
\* concurrent saves of one job by one user included, the table holds at most
\* one SavedJob row per (user, job); a repeated save answers with the
\* existing saved_job_id and adds no row, and one unsave leaves the job
\* unsaved.
SavedJobUnique ==
    \A i, j \in DOMAIN saved_table :
        (/\ saved_table[i].user_id = saved_table[j].user_id
         /\ saved_table[i].job_id = saved_table[j].job_id) => i = j

(***************************************************************************)
(* Properties of soft deactivation (SpecListing)                           *)
(***************************************************************************)
InactiveIds ==
    {job_postings[i].id : i \in {k \in DOMAIN job_postings :
                                    ~job_postings[k].is_active}}

\* C28: once an admin update has set a job's is_active to false, the job
\* appears in no listing answered afterwards (recommendations, public job
\* listing, saved-jobs listing, chat advisor context) until an admin update
\* sets is_active to true again.
InactiveHiddenStep ==
    listing' # listing =>
        /\ job_postings' = job_postings
        /\ \A k \in DOMAIN listing'.jobs : listing'.jobs[k] \notin InactiveIds

DeactivatedJobsHidden == [][InactiveHiddenStep]_vars

\* the admin deactivated job 1, which u2 has saved like job 2, and the
\* saved-jobs listing of u2 answered afterwards shows job 2 alone
DeactivatedJobsWitness ==
    /\ admin_response = Response("update_job", "u1", 200, "")
    /\ InactiveIds = {1}
    /\ Len(job_postings) = 2
    /\ saved_jobs = {[user_id |-> "u2", job_id |-> 1],
                     [user_id |-> "u2", job_id |-> 2]}
    /\ listing = Listing("saved", <<2>>)

====
